---- MODULE Spec2Model ----
(***************************************************************************)
(* html2doc: the batch driver (runner.run), the LangGraph pipeline         *)
(* (graph.build_pipeline and its nodes) and the generation client          *)
(* (llm.MarkdownGenerator), as a state machine.                            *)
(*                                                                         *)
(* Conventions                                                             *)
(*   - Python None is the empty tuple, Optional[v] is <<>> or <<v>>.       *)
(*   - A Python str is a tuple of tokens; "" is <<>>; `a in b` is          *)
(*     contiguous-subsequence containment.                                 *)
(*   - A dict is a TLA+ function; `k in d` is k \in DOMAIN d.              *)
(*   - A call that can raise returns Ok(value) or Raise(exception).        *)
(*   - A pathlib.Path is [dir, stem, suffix]: the directory components,    *)
(*     the final component without its last suffix, and that suffix.       *)
(***************************************************************************)
EXTENDS Integers, Sequences, FiniteSets, TLC

(* ---------------------------- bounds ----------------------------------- *)
MaxFiles == 2
MaxExtra == 1
MaxElems == 4
MaxItems == 2
MaxMd == 2
MaxRows == 2
MaxCols == 2
MaxUnits == 11
MaxWrites == 3
MaxArgs == 3
MaxMessages == 2
MaxContents == 2

(* ---------------------------- basic values ----------------------------- *)
None == <<>>
Some(v) == <<v>>

Ok(v) == [ok |-> TRUE, value |-> v]
Raise(e) == [ok |-> FALSE, exc |-> e]
Exc(type, msg) == [type |-> type, msg |-> msg]

ConfigError(msg) == Exc("ConfigError", msg)

Range(s) == {s[k] : k \in 1..Len(s)}

RECURSIVE SeqsUpTo(_, _)
SeqsUpTo(S, n) ==
    IF n = 0 THEN {<<>>}
    ELSE LET shorter == SeqsUpTo(S, n - 1)
         IN shorter \cup {Append(s, e) : s \in {t \in shorter : Len(t) = n - 1}, e \in S}

IsPrefix(s, t) == Len(s) <= Len(t) /\ SubSeq(t, 1, Len(s)) = s

(* str.__contains__ on token tuples *)
Contains(text, needle) ==
    \E k \in 0..(Len(text) - Len(needle)) : SubSeq(text, k + 1, k + Len(needle)) = needle

(* ---------------------------- paths ------------------------------------ *)
MkPath(dir, stem, suffix) == [dir |-> dir, stem |-> stem, suffix |-> suffix]

(* Path.resolve(): collapses `..` components (no symlinks in the model) *)
RECURSIVE Normalize(_, _)
Normalize(parts, acc) ==
    IF parts = <<>> THEN acc
    ELSE IF Head(parts) = ".."
         THEN Normalize(Tail(parts), IF acc = <<>> THEN acc ELSE SubSeq(acc, 1, Len(acc) - 1))
         ELSE Normalize(Tail(parts), Append(acc, Head(parts)))

Resolve(p) == MkPath(Normalize(p.dir, <<>>), p.stem, p.suffix)

(* Path.with_suffix *)
WithSuffix(p, suffix) == MkPath(p.dir, p.stem, suffix)

(* Python's ordering of the strings the model uses, ascending *)
StrOrder == <<"", "..", ".html", ".json", ".md", ".txt", "a", "alpha", "beta", "docs", "dup",
              "manual", "out", "output", "proj", "sub", "x", "y">>

StrRank(s) == CHOOSE k \in 1..Len(StrOrder) : StrOrder[k] = s

RECURSIVE SeqLess(_, _)
SeqLess(a, b) ==
    IF b = <<>> THEN FALSE
    ELSE IF a = <<>> THEN TRUE
    ELSE IF Head(a) = Head(b) THEN SeqLess(Tail(a), Tail(b))
    ELSE StrRank(Head(a)) < StrRank(Head(b))

(* Path.__lt__: comparison of the parts, the file name last *)
PathLess(p, q) == SeqLess(p.dir \o <<p.stem, p.suffix>>, q.dir \o <<q.stem, q.suffix>>)

(* ---------------------------- config.py -------------------------------- *)
BaseDir == <<"proj">>

FileConfig(input, output) == [input |-> input, title |-> None, context |-> None, output |-> output]

(* config._resolve_path: a raw path is [abs, dir, stem, suffix] *)
_resolve_path(raw_path, base_dir) ==
    IF raw_path.abs THEN MkPath(raw_path.dir, raw_path.stem, raw_path.suffix)
    ELSE Resolve(MkPath(base_dir \o raw_path.dir, raw_path.stem, raw_path.suffix))

(* config.load_config, the loop over raw_files *)
RECURSIVE LoadEntries(_, _, _)
LoadEntries(raw_files, idx, files) ==
    IF idx > Len(raw_files) THEN Ok(files)
    ELSE LET entry == raw_files[idx] IN
         IF entry.kind # "map" THEN Raise(ConfigError(<<"files_entry_not_mapping", idx>>))
         ELSE IF entry.input = None THEN Raise(ConfigError(<<"files_entry_without_input", idx>>))
         ELSE LoadEntries(raw_files, idx + 1,
                          Append(files, FileConfig(_resolve_path(entry.input[1], BaseDir), entry.output)))

load_config(cfg, allow_empty_files) ==
    IF ~cfg.exists THEN Raise(ConfigError(<<"config_not_found">>))
    ELSE IF cfg.yaml.kind = "error" THEN Raise(ConfigError(<<"config_load_failed">>))
    ELSE IF cfg.yaml.kind = "scalar" \/ (cfg.yaml.kind = "list" /\ cfg.yaml.items # <<>>)
         THEN Raise(ConfigError(<<"root_not_mapping">>))
    ELSE IF cfg.yaml.kind = "map" /\ cfg.yaml.files # None /\ cfg.yaml.files[1].kind # "list"
         THEN Raise(ConfigError(<<"files_not_list">>))
    ELSE LET raw_files == IF cfg.yaml.kind = "map" /\ cfg.yaml.files # None
                          THEN cfg.yaml.files[1].items ELSE <<>>
         IN IF raw_files = <<>> /\ ~allow_empty_files
            THEN Raise(ConfigError(<<"files_empty">>))
            ELSE LET loaded == LoadEntries(raw_files, 1, <<>>) IN
                 IF ~loaded.ok THEN loaded
                 ELSE Ok([files |-> loaded.value,
                          output_dir |-> Normalize(BaseDir \o <<"output">>, <<>>)])

(* config.load_file_list, the loop over raw_entries *)
RECURSIVE LoadListEntries(_, _, _)
LoadListEntries(raw_entries, idx, files) ==
    IF idx > Len(raw_entries) THEN Ok(files)
    ELSE LET entry == raw_entries[idx] IN
         IF entry.kind = "str"
         THEN LoadListEntries(raw_entries, idx + 1,
                              Append(files, FileConfig(_resolve_path(entry.input[1], BaseDir), None)))
         ELSE IF entry.kind = "map"
         THEN IF entry.input = None
              THEN Raise(ConfigError(<<"files_entry_without_input", idx>>))
              ELSE LoadListEntries(raw_entries, idx + 1,
                                   Append(files, FileConfig(_resolve_path(entry.input[1], BaseDir), entry.output)))
         ELSE Raise(ConfigError(<<"files_entry_bad_type", idx>>))

load_file_list(lst) ==
    IF ~lst.exists THEN Raise(ConfigError(<<"file_list_not_found">>))
    ELSE IF lst.yaml.kind = "error" THEN Raise(ConfigError(<<"file_list_load_failed">>))
    ELSE IF lst.yaml.kind = "scalar" THEN Raise(ConfigError(<<"files_not_list">>))
    ELSE IF lst.yaml.kind = "map" /\ lst.yaml.files = None
         THEN Raise(ConfigError(<<"file_list_without_files_key">>))
    ELSE IF lst.yaml.kind = "map" /\ lst.yaml.files[1].kind # "list"
         THEN Raise(ConfigError(<<"files_not_list">>))
    ELSE LET raw_entries == IF lst.yaml.kind = "map" THEN lst.yaml.files[1].items
                            ELSE IF lst.yaml.kind = "list" THEN lst.yaml.items
                            ELSE <<>>
         IN IF raw_entries = <<>> THEN Raise(ConfigError(<<"file_list_empty">>))
            ELSE LoadListEntries(raw_entries, 1, <<>>)

(* ---------------------------- runner.py: output paths ------------------ *)
(* uniqueness by input stem: an explicit `output` ignored *)
_resolve_output_path_by_stem(file_cfg, output_dir) ==
    Resolve(MkPath(output_dir, file_cfg.input.stem, ".md"))

_resolve_output_path(file_cfg, output_dir) ==
    IF file_cfg.output # None
    THEN LET candidate == file_cfg.output[1] IN
         IF candidate.abs THEN MkPath(candidate.dir, candidate.stem, candidate.suffix)
         ELSE Resolve(MkPath(output_dir \o candidate.dir, candidate.stem, candidate.suffix))
    ELSE Resolve(MkPath(output_dir, file_cfg.input.stem, ".md"))

(* collisions.setdefault(resolved, []).append(input): a dict in insertion order,
   kept as a tuple of <<key, inputs>> items *)
SetDefaultAppend(collisions, key, input) ==
    IF \E k \in 1..Len(collisions) : collisions[k][1] = key
    THEN [k \in 1..Len(collisions) |->
            IF collisions[k][1] = key
            THEN <<key, Append(collisions[k][2], input)>> ELSE collisions[k]]
    ELSE Append(collisions, <<key, <<input>>>>)

RECURSIVE Collisions(_, _, _)
Collisions(files, output_dir, collisions) ==
    IF files = <<>> THEN collisions
    ELSE Collisions(Tail(files), output_dir,
                    SetDefaultAppend(collisions, _resolve_output_path(Head(files), output_dir),
                                     Head(files).input))

(* sorted(duplicates.items()): keys are distinct, so the key decides *)
RECURSIVE SortItems(_)
SortItems(items) ==
    IF items = <<>> THEN <<>>
    ELSE LET least == CHOOSE k \in 1..Len(items) :
                         \A m \in 1..Len(items) : m = k \/ PathLess(items[k][1], items[m][1])
             rest == [m \in 1..(Len(items) - 1) |-> IF m < least THEN items[m] ELSE items[m + 1]]
         IN <<items[least]>> \o SortItems(rest)

_ensure_unique_output_paths(files, output_dir) ==
    LET collisions == Collisions(files, output_dir, <<>>)
        IsDup(item) == Len(item[2]) > 1
        duplicates == SelectSeq(collisions, IsDup)
    IN IF duplicates = <<>> THEN Ok(None)
       ELSE Raise(ConfigError(<<"duplicate_output", SortItems(duplicates)>>))

(* ---------------------------- models.py -------------------------------- *)
Get(data, key) == IF key \in DOMAIN data THEN data[key] ELSE None

(* str(data.get(key)): str(None) is "None" *)
StrGet(data, key) == IF key \in DOMAIN data THEN data[key] ELSE <<"None">>

SectionChunk(identifier, heading, level, body, order) ==
    [identifier |-> identifier, heading |-> heading, level |-> level, body |-> body, order |-> order]

Asset(identifier, src, alt) == [identifier |-> identifier, src |-> src, alt |-> alt]

KnowledgeUnit_from_dict(data) ==
    LET identifier == IF Get(data, "id") # <<>> THEN Get(data, "id")
                      ELSE IF Get(data, "identifier") # <<>> THEN Get(data, "identifier")
                      ELSE Get(data, "title")
    IN IF identifier = <<>>
       THEN Raise(Exc("ValueError", <<"knowledge_unit_needs_id_or_title">>))
       ELSE Ok([identifier |-> identifier,
                title |-> Get(data, "title"),
                summary |-> Get(data, "summary"),
                source_section |-> IF Get(data, "source_section") # <<>>
                                   THEN Some(data["source_section"]) ELSE None])

RelationEdge_from_dict(data) ==
    IF Get(data, "source_id") = <<>> \/ Get(data, "target_id") = <<>>
    THEN Raise(Exc("ValueError", <<"relation_edge_needs_source_and_target">>))
    ELSE Ok([source_id |-> data["source_id"],
             target_id |-> data["target_id"],
             relation |-> StrGet(data, "relation"),
             reason |-> Get(data, "reason")])

ValidationReport(valid, issues) == [valid |-> valid, issues |-> issues]

(* ---------------------------- llm.py ----------------------------------- *)
UsageFields == {"input_tokens", "output_tokens"}

(* a content item is a Python value tagged with its type py; a dict is a
   function from keys to values *)
PyStr(text) == [py |-> "str", str |-> text]
PyDict(dict) == [py |-> "dict", dict |-> dict]

(* lines 15-18 *)
_text_content(text) == PyDict([type |-> "input_text", text |-> text])

(* lines 29-38 *)
NormalizeItem(item) ==
    IF item.py = "dict"
    THEN IF "type" \in DOMAIN item.dict /\ item.dict["type"] = "text"
         THEN PyDict([type |-> "input_text"] @@ item.dict)
         ELSE item
    ELSE IF item.py = "str" THEN _text_content(item.str)
    ELSE item

(* only the plain strings converted *)
_normalize_messages_strings_only(messages) ==
    [k \in 1..Len(messages) |->
        LET message == messages[k]
            raw_contents == IF "content" \in DOMAIN message THEN message["content"] ELSE <<>>
            contents == [j \in 1..Len(raw_contents) |->
                            IF raw_contents[j].py = "str" THEN _text_content(raw_contents[j].str)
                            ELSE raw_contents[j]]
        IN [content |-> contents] @@ message]

(* lines 21-40; a content of None is the empty tuple, as the empty list is *)
_normalize_messages(messages) ==
    [k \in 1..Len(messages) |->
        LET message == messages[k]
            raw_contents == IF "content" \in DOMAIN message THEN message["content"] ELSE <<>>
            contents == [j \in 1..Len(raw_contents) |-> NormalizeItem(raw_contents[j])]
        IN [content |-> contents] @@ message]

(* MarkdownGenerator._record_usage with _extract_usage_value *)
_record_usage(totals, usage_obj) ==
    IF usage_obj = None THEN totals
    ELSE [field \in UsageFields |->
            IF usage_obj[1][field] # None THEN totals[field] + usage_obj[1][field][1]
            ELSE totals[field]]

(* MarkdownGenerator._parse_json; a response text that should be JSON is
   [fence, kind, items]: whether it is wrapped in a code fence, what the
   unwrapped text is, and the parsed elements *)
_parse_json(text) ==
    LET cleaned == [text EXCEPT !.fence = FALSE] IN
    IF cleaned.kind = "blank" THEN Ok(<<>>)
    ELSE IF cleaned.kind = "garbage" THEN Raise(Exc("JSONDecodeError", <<"invalid_json">>))
    ELSE IF cleaned.kind = "array" THEN Ok(cleaned.items)
    ELSE IF cleaned.kind = "object" THEN Ok(<<cleaned.items[1]>>)
    ELSE Raise(Exc("ValueError", <<"llm_json_response_invalid">>))

(* a parsed JSON element that is not an object *)
NonDict == [nondict |-> TRUE]
IsDict(item) == "nondict" \notin DOMAIN item

(* the synthesized identifier numbered by the units built so far *)
RECURSIVE BuildUnits_renumbering(_, _, _, _)
BuildUnits_renumbering(data, idx, section, units) ==
    IF idx > Len(data) THEN Ok(units)
    ELSE LET item == data[idx] IN
         IF item = <<>> THEN BuildUnits_renumbering(data, idx + 1, section, units)
         ELSE IF ~IsDict(item) THEN Raise(Exc("AttributeError", <<"no_attribute_get">>))
         ELSE LET named == IF Get(item, "id") = <<>> /\ Get(item, "identifier") = <<>>
                           THEN [id |-> section.identifier \o <<"ku", Len(units) + 1>>] @@ item
                           ELSE item
                  made == KnowledgeUnit_from_dict([source_section |-> section.identifier] @@ named)
              IN IF made.ok THEN BuildUnits_renumbering(data, idx + 1, section, Append(units, made.value))
                 ELSE made

(* MarkdownGenerator.extract_knowledge, after the request: the loop over data *)
RECURSIVE BuildUnits(_, _, _, _)
BuildUnits(data, idx, section, units) ==
    IF idx > Len(data) THEN Ok(units)
    ELSE LET item == data[idx] IN
         IF item = <<>> THEN BuildUnits(data, idx + 1, section, units)
         ELSE IF ~IsDict(item) THEN Raise(Exc("AttributeError", <<"no_attribute_get">>))
         ELSE LET named == IF Get(item, "id") = <<>> /\ Get(item, "identifier") = <<>>
                           THEN [id |-> section.identifier \o <<"ku", idx>>] @@ item
                           ELSE item
                  made == KnowledgeUnit_from_dict([source_section |-> section.identifier] @@ named)
              IN IF made.ok THEN BuildUnits(data, idx + 1, section, Append(units, made.value))
                 ELSE made

(* objects without an endpoint filtered out instead of raising *)
RECURSIVE BuildEdges_dropping(_, _)
BuildEdges_dropping(data, edges) ==
    IF data = <<>> THEN Ok(edges)
    ELSE LET item == Head(data)
             made == RelationEdge_from_dict(item)
         IN IF item = <<>> \/ ~made.ok THEN BuildEdges_dropping(Tail(data), edges)
            ELSE BuildEdges_dropping(Tail(data), Append(edges, made.value))

(* MarkdownGenerator.link_relations, after the request: the comprehension *)
RECURSIVE BuildEdges(_, _)
BuildEdges(data, edges) ==
    IF data = <<>> THEN Ok(edges)
    ELSE LET item == Head(data) IN
         IF item = <<>> THEN BuildEdges(Tail(data), edges)
         ELSE IF ~IsDict(item) THEN Raise(Exc("AttributeError", <<"no_attribute_get">>))
         ELSE LET made == RelationEdge_from_dict(item) IN
              IF made.ok THEN BuildEdges(Tail(data), Append(edges, made.value)) ELSE made

(* str.strip() on token tuples; " " and "\n" are the whitespace tokens *)
Whitespace == {" ", "\n"}

RECURSIVE LStrip(_)
LStrip(text) == IF text # <<>> /\ Head(text) \in Whitespace THEN LStrip(Tail(text)) ELSE text

RECURSIVE RStrip(_)
RStrip(text) ==
    IF text # <<>> /\ text[Len(text)] \in Whitespace
    THEN RStrip(SubSeq(text, 1, Len(text) - 1)) ELSE text

Strip(text) == RStrip(LStrip(text))

(* sep.join(parts) *)
RECURSIVE Join(_, _)
Join(sep, parts) ==
    IF parts = <<>> THEN <<>>
    ELSE IF Len(parts) = 1 THEN parts[1]
    ELSE parts[1] \o sep \o Join(sep, Tail(parts))

Max(a, b) == IF a >= b THEN a ELSE b

(* ---------------------------- graph.py: structural extractor ----------- *)
(* The parsed document is the tuple of its elements in document order:
     [name |-> "h1".."h6" | "p" | "li", text]   text is get_text(" ", strip=True)
     [name |-> "pre" | "code", text]            text is get_text()
     [name |-> "table", rows]                   rows of cells, per <tr>
     [name |-> "img", src, alt]                 Optional attributes
     [name |-> "div", text]                     text outside the tracked elements *)
HeadingNames == <<"h1", "h2", "h3", "h4", "h5", "h6">>
TrackedNames == Range(HeadingNames) \cup {"p", "li", "table", "pre", "code"}

IsHeading(element) == element.name \in Range(HeadingNames)
HeadingLevel(element) == CHOOSE k \in 1..Len(HeadingNames) : HeadingNames[k] = element.name

(* str.ljust *)
RECURSIVE LJust(_, _)
LJust(item, width) == IF Len(item) >= width THEN item ELSE LJust(Append(item, " "), width)

Dashes(width) == [k \in 1..width |-> "-"]

MinColumnWidth == 3

(* the widths without the minimum *)
_table_to_markdown_no_minimum(table) ==
    LET IsRow(cols) == cols # <<>>
        rows == SelectSeq(table.rows, IsRow)
    IN IF rows = <<>> THEN <<>>
       ELSE LET header == rows[1]
                body == Tail(rows)
                widths == [idx \in 1..Len(header) |-> Len(header[idx])]
                fmt_row(items) ==
                    <<"|", " ">>
                    \o Join(<<" ", "|", " ">>, [idx \in 1..Len(items) |-> LJust(items[idx], widths[idx])])
                    \o <<" ", "|">>
                separator ==
                    <<"|", " ">>
                    \o Join(<<" ", "|", " ">>, [idx \in 1..Len(header) |-> Dashes(widths[idx])])
                    \o <<" ", "|">>
                padded(row) == [idx \in 1..Len(header) |-> IF idx <= Len(row) THEN row[idx] ELSE <<>>]
            IN Join(<<"\n">>, <<fmt_row(header), separator>>
                              \o [k \in 1..Len(body) |-> fmt_row(padded(body[k]))])

_table_to_markdown(table) ==
    LET IsRow(cols) == cols # <<>>
        rows == SelectSeq(table.rows, IsRow)
    IN IF rows = <<>> THEN <<>>
       ELSE LET header == rows[1]
                body == Tail(rows)
                widths == [idx \in 1..Len(header) |-> Max(Len(header[idx]), MinColumnWidth)]
                fmt_row(items) ==
                    <<"|", " ">>
                    \o Join(<<" ", "|", " ">>, [idx \in 1..Len(items) |-> LJust(items[idx], widths[idx])])
                    \o <<" ", "|">>
                separator ==
                    <<"|", " ">>
                    \o Join(<<" ", "|", " ">>, [idx \in 1..Len(header) |-> Dashes(widths[idx])])
                    \o <<" ", "|">>
                padded(row) == [idx \in 1..Len(header) |-> IF idx <= Len(row) THEN row[idx] ELSE <<>>]
            IN Join(<<"\n">>, <<fmt_row(header), separator>>
                              \o [k \in 1..Len(body) |-> fmt_row(padded(body[k]))])

(* the code fence marker *)
Fence == "~~~"

_element_text(element) ==
    IF element.name = "table" THEN _table_to_markdown(element)
    ELSE IF element.name \in {"pre", "code"} THEN <<Fence, "\n">> \o element.text \o <<"\n", Fence>>
    ELSE element.text

(* flush() advancing the order even when nothing is emitted *)
Flush_counting(ext) ==
    LET NonBlank(line) == Strip(line) # <<>>
        text == Strip(Join(<<"\n">>, SelectSeq(ext.buffer, NonBlank)))
    IN IF text # <<>>
       THEN [ext EXCEPT !.buffer = <<>>,
                        !.sections = Append(@, SectionChunk(<<"sec", ext.order>>, ext.current_heading,
                                                             ext.current_level, text, ext.order)),
                        !.order = @ + 1]
       ELSE [ext EXCEPT !.buffer = <<>>, !.order = @ + 1]

(* the closure flush(order) of _extract_sections_and_assets *)
Flush(ext) ==
    LET NonBlank(line) == Strip(line) # <<>>
        text == Strip(Join(<<"\n">>, SelectSeq(ext.buffer, NonBlank)))
    IN IF text # <<>>
       THEN [ext EXCEPT !.buffer = <<>>,
                        !.sections = Append(@, SectionChunk(<<"sec", ext.order>>, ext.current_heading,
                                                             ext.current_level, text, ext.order)),
                        !.order = @ + 1]
       ELSE [ext EXCEPT !.buffer = <<>>]

RECURSIVE Scan(_, _)
Scan(elements, ext) ==
    IF elements = <<>> THEN Flush(ext)
    ELSE LET element == Head(elements) IN
         IF IsHeading(element)
         THEN Scan(Tail(elements),
                   [Flush(ext) EXCEPT !.current_heading = Some(element.text),
                                      !.current_level = HeadingLevel(element)])
         ELSE LET text == _element_text(element) IN
              Scan(Tail(elements), IF text # <<>> THEN [ext EXCEPT !.buffer = Append(@, text)] ELSE ext)

(* the text nodes of one element, for soup.get_text(" ", strip=True) *)
ElementStrings(element) ==
    IF element.name = "img" THEN <<>>
    ELSE IF element.name = "table"
    THEN LET cells == Join(<<>>, element.rows)
             NonEmpty(cell) == Strip(cell) # <<>>
         IN SelectSeq(cells, NonEmpty)
    ELSE IF Strip(element.text) = <<>> THEN <<>> ELSE <<Strip(element.text)>>

RECURSIVE AllStrings(_)
AllStrings(html) == IF html = <<>> THEN <<>> ELSE ElementStrings(Head(html)) \o AllStrings(Tail(html))

FullTextHeading == <<"full text">>

(* images without a source attribute skipped *)
CollectAssets_skipping(html) ==
    LET HasSrc(element) == element.name = "img" /\ element.src # None
        imgs == SelectSeq(html, HasSrc)
    IN [idx \in 1..Len(imgs) |-> Asset(<<"asset", idx>>, imgs[idx].src[1], imgs[idx].alt)]

(* the loop over soup.find_all("img") *)
CollectAssets(html) ==
    LET IsImg(element) == element.name = "img"
        imgs == SelectSeq(html, IsImg)
    IN [idx \in 1..Len(imgs) |->
          Asset(<<"asset", idx>>,
                IF imgs[idx].src = None THEN <<>> ELSE imgs[idx].src[1],
                imgs[idx].alt)]

(* the fallback only for a document without any tracked element *)
_extract_sections_and_assets_untracked_only(html) ==
    LET IsTracked(element) == element.name \in TrackedNames
        assets == CollectAssets(html)
        scanned == Scan(SelectSeq(html, IsTracked),
                        [sections |-> <<>>, current_heading |-> None, current_level |-> 1,
                         buffer |-> <<>>, order |-> 1])
        text == Join(<<" ">>, AllStrings(html))
        sections == IF SelectSeq(html, IsTracked) = <<>> /\ text # <<>>
                    THEN <<SectionChunk(<<"sec", 1>>, Some(FullTextHeading), 1, text, 1)>>
                    ELSE scanned.sections
    IN [sections |-> sections, assets |-> assets]

_extract_sections_and_assets(html) ==
    LET IsTracked(element) == element.name \in TrackedNames
        assets == CollectAssets(html)
        scanned == Scan(SelectSeq(html, IsTracked),
                        [sections |-> <<>>, current_heading |-> None, current_level |-> 1,
                         buffer |-> <<>>, order |-> 1])
        text == Join(<<" ">>, AllStrings(html))
        sections == IF scanned.sections = <<>> /\ text # <<>>
                    THEN <<SectionChunk(<<"sec", 1>>, Some(FullTextHeading), 1, text, 1)>>
                    ELSE scanned.sections
    IN [sections |-> sections, assets |-> assets]

(* ---------------------------- graph.py: outline ------------------------ *)
PreviewBudget == 80

RECURSIVE FirstLine(_)
FirstLine(text) ==
    IF text = <<>> \/ Head(text) = "\n" THEN <<>> ELSE <<Head(text)>> \o FirstLine(Tail(text))

Take(text, n) == SubSeq(text, 1, IF Len(text) < n THEN Len(text) ELSE n)

RECURSIVE Indent(_)
Indent(n) == IF n <= 0 THEN <<>> ELSE <<" ", " ">> \o Indent(n - 1)

_build_outline(sections) ==
    IF sections = <<>> THEN <<>>
    ELSE LET line(section) ==
                 LET heading == IF section.heading = None \/ section.heading = Some(<<>>)
                                THEN <<"(untitled)">> ELSE section.heading[1]
                     first_line == Take(FirstLine(Strip(section.body)), PreviewBudget)
                     suffix == IF first_line # <<>> THEN <<" ", "-", " ">> \o first_line ELSE <<>>
                 IN Indent(Max(section.level - 1, 0)) \o <<"-", " ">> \o heading \o suffix
         IN Join(<<"\n">>, [k \in 1..Len(sections) |-> line(sections[k])])

(* ---------------------------- graph.py: validator ---------------------- *)
SampleSize == 10
MinMissing == 3

IssueEmpty == "output is empty"
IssueNoTitle == "missing leading title heading"
IssueCoverage == "knowledge missing from output"

(* the threshold taken from the titled units of the whole list *)
CoverageMissing_titled_sample(markdown, knowledge) ==
    LET Titled(item) == item.title # <<>>
        sample == Take(SelectSeq(knowledge, Titled), SampleSize)
        Missing(item) == ~Contains(markdown, item.title)
        missing_titles == SelectSeq(sample, Missing)
    IN Len(missing_titles) >= Max(MinMissing, (Len(sample) \div 2) + 1)

(* lines 249-250: the coverage condition *)
CoverageMissing(markdown, knowledge) ==
    LET sample == Take(knowledge, SampleSize)
        Missing(item) == item.title # <<>> /\ ~Contains(markdown, item.title)
        missing_titles == SelectSeq(sample, Missing)
    IN Len(missing_titles) >= Max(MinMissing, (Len(sample) \div 2) + 1)

(* the first issue found ends the validation *)
_validate_markdown_first_issue(markdown, knowledge) ==
    LET stripped == Strip(markdown)
        issues == IF stripped = <<>> THEN <<IssueEmpty>>
                  ELSE IF Head(stripped) # "#" THEN <<IssueNoTitle>>
                  ELSE IF CoverageMissing(markdown, knowledge) THEN <<IssueCoverage>>
                  ELSE <<>>
    IN ValidationReport(issues = <<>>, issues)

_validate_markdown(markdown, knowledge) ==
    LET stripped == Strip(markdown)
        issues == (IF stripped = <<>> THEN <<IssueEmpty>> ELSE <<>>)
                  \o (IF stripped # <<>> /\ Head(LStrip(stripped)) # "#" THEN <<IssueNoTitle>> ELSE <<>>)
                  \o (IF CoverageMissing(markdown, knowledge) THEN <<IssueCoverage>> ELSE <<>>)
    IN ValidationReport(issues = <<>>, issues)

(* ---------------------------- graph.py: build_pipeline ----------------- *)
START == "__start__"
END == "__end__"

(* the outline built after the knowledge extraction *)
Edges_outline_late == {<<START, "load_html">>,
                       <<"load_html", "parse_html">>,
                       <<"parse_html", "extract_knowledge">>,
                       <<"extract_knowledge", "summarize_structure">>,
                       <<"summarize_structure", "link_relations">>,
                       <<"link_relations", "compose_markdown">>,
                       <<"compose_markdown", "validate_output">>,
                       <<"validate_output", "persist_markdown">>,
                       <<"persist_markdown", END>>}

Edges == {<<START, "load_html">>,
          <<"load_html", "parse_html">>,
          <<"parse_html", "summarize_structure">>,
          <<"summarize_structure", "extract_knowledge">>,
          <<"extract_knowledge", "link_relations">>,
          <<"link_relations", "compose_markdown">>,
          <<"compose_markdown", "validate_output">>,
          <<"validate_output", "persist_markdown">>,
          <<"persist_markdown", END>>}

(* the node the compiled graph runs after `n` *)
Successor(n) == CHOOSE m \in {e[2] : e \in Edges} : <<n, m>> \in Edges

(* the update taken for the whole state *)
Merge_replacing(st, update) == update

(* a node's partial update merged into the shared state *)
Merge(st, update) == update @@ st

StateGet(st, key, default) == IF key \in DOMAIN st THEN st[key] ELSE default

(* ---------------------------- the environment -------------------------- *)
(* run()'s inputs: the configuration file, the --inputs list, the
   --output-dir override and whether OPENAI_API_KEY is set *)
RawPath(dir, stem, suffix) == [abs |-> FALSE, dir |-> dir, stem |-> stem, suffix |-> suffix]
AbsPath(dir, stem, suffix) == [abs |-> TRUE, dir |-> dir, stem |-> stem, suffix |-> suffix]

MapEntry(input, output) == [kind |-> "map", input |-> input, output |-> output]

Entry_a == MapEntry(Some(RawPath(<<>>, "a", ".html")), None)
Entry_x_manual == MapEntry(Some(RawPath(<<"x">>, "manual", ".html")), None)
Entry_y_manual == MapEntry(Some(RawPath(<<"y">>, "manual", ".html")), None)
Entry_y_beta == MapEntry(Some(RawPath(<<"y">>, "manual", ".html")), Some(RawPath(<<>>, "beta", ".md")))
Entry_no_input == MapEntry(None, None)

YamlList(items) == [kind |-> "list", items |-> items]
YamlMap(files) == [kind |-> "map", files |-> files]
YamlFile(yaml) == [exists |-> TRUE, yaml |-> yaml]
NoFile == [exists |-> FALSE]

ConfigFilesOf(Entries) ==
    {NoFile, YamlFile([kind |-> "error"]), YamlFile([kind |-> "scalar"]), YamlFile([kind |-> "empty"]),
     YamlFile(YamlMap(None)), YamlFile(YamlMap(Some([kind |-> "scalar"])))}
    \cup {YamlFile(YamlMap(Some(YamlList(items)))) : items \in SeqsUpTo(Entries, MaxFiles)}

ListFilesOf(Entries) ==
    {NoFile, YamlFile([kind |-> "error"]), YamlFile([kind |-> "empty"]), YamlFile([kind |-> "scalar"]),
     YamlFile(YamlMap(None))}
    \cup {YamlFile(YamlList(items)) : items \in SeqsUpTo(Entries, MaxExtra)}
    \cup {YamlFile(YamlMap(Some(YamlList(items)))) : items \in SeqsUpTo(Entries, MaxExtra)}

OverrideDir == <<"proj", "sub", "..", "out">>

(* the batches of the whole-run specification *)
RunArgs ==
    [config : ConfigFilesOf({Entry_a, Entry_x_manual, Entry_y_beta, Entry_no_input}),
     input_list : {None} \cup {Some(f) : f \in ListFilesOf({[kind |-> "str", input |-> Entry_y_manual.input],
                                                            Entry_no_input})},
     output_override : {None, Some(OverrideDir)},
     api_key : BOOLEAN]

(* the one-document batch of the single-document specification *)
DocArgs ==
    [config : {YamlFile(YamlMap(Some(YamlList(<<Entry_a>>))))},
     input_list : {None},
     output_override : {None},
     api_key : {TRUE}]

(* the configurations of the output-path specification *)
MaxEntries == 4

PathEntries ==
    {Entry_x_manual,
     Entry_y_manual,
     MapEntry(Entry_x_manual.input, Some(RawPath(<<>>, "alpha", ".md"))),
     Entry_y_beta,
     MapEntry(Entry_a.input, Some(RawPath(<<"sub", "..">>, "manual", ".md"))),
     MapEntry(Entry_a.input, Some(AbsPath(<<"proj", "output">>, "alpha", ".md"))),
     MapEntry(Entry_a.input, Some(AbsPath(<<"proj", "output", "sub", "..">>, "alpha", ".md")))}

ConfigArgs ==
    [config : {YamlFile(YamlMap(Some(YamlList(items)))) : items \in SeqsUpTo(PathEntries, MaxEntries)},
     input_list : {None},
     output_override : {None, Some(OverrideDir)},
     api_key : {TRUE}]

(* the batches of the written-files specification: explicit outputs of one
   stem and several extensions *)
OutputEntries ==
    {Entry_a,
     MapEntry(Entry_a.input, Some(RawPath(<<>>, "alpha", ".md"))),
     MapEntry(Entry_x_manual.input, Some(RawPath(<<>>, "alpha", ".txt"))),
     MapEntry(Entry_y_manual.input, Some(RawPath(<<>>, "alpha", ".json")))}

OutputArgs ==
    [config : {YamlFile(YamlMap(Some(YamlList(items)))) : items \in SeqsUpTo(OutputEntries, MaxFiles)},
     input_list : {None},
     output_override : {None},
     api_key : {TRUE}]

(* what input_path.read_text() can give: the parsed elements, or an error *)
H2 == [name |-> "h2", text |-> <<"H">>]
Para == [name |-> "p", text |-> <<"x">>]
Img == [name |-> "img", src |-> None, alt |-> None]

ReadError == Raise(Exc("OSError", <<"cannot read input">>))

SampleHtml == <<Para, H2, Para, Img, H2, Para, H2>>

HtmlFiles == {SubSeq(SampleHtml, 1, n) : n \in 0..MaxElems}

DocContents == {ReadError} \cup {Ok(h) : h \in HtmlFiles}
RunContents == {ReadError, Ok(<<H2, Para>>)}

(* the documents of the extractor specification *)
H3 == [name |-> "h3", text |-> <<"G">>]
Blank == [name |-> "p", text |-> <<>>]
Pre == [name |-> "pre", text |-> <<"c">>]
Div == [name |-> "div", text |-> <<"d">>]
ImgSrc == [name |-> "img", src |-> Some(<<"pic.png">>), alt |-> Some(<<"a picture">>)]

ExtractElements == {H2, H3, Para, Blank, Pre, Div, Img, ImgSrc}

Cells == {<<>>, <<"a">>, <<"a", "b", "c", "d">>}

Tables == {[name |-> "table", rows |-> rows] : rows \in SeqsUpTo(SeqsUpTo(Cells, MaxCols), MaxRows)}

ExtractContents ==
    {Ok(html) : html \in SeqsUpTo(ExtractElements, MaxElems)} \cup {Ok(<<table>>) : table \in Tables}

(* responses of the generation capability *)
Reported == Some([input_tokens |-> Some(1), output_tokens |-> Some(2)])
Usages == {None, Reported}

JsonTexts(Items) ==
    {[fence |-> FALSE, kind |-> k, items |-> <<>>] : k \in {"blank", "garbage", "scalar"}}
    \cup {[fence |-> FALSE, kind |-> "object", items |-> <<it>>] : it \in Items}
    \cup [fence : BOOLEAN, kind : {"array"}, items : SeqsUpTo(Items, MaxItems)]

JsonArray(items) == [fence |-> FALSE, kind |-> "array", items |-> items]

Failed == [error |-> TRUE]
Responses(UsageSet, Texts) == {Failed} \cup [error : {FALSE}, usage : UsageSet, text : Texts]

Item_titled == [title |-> <<"T1">>]
Item_named == [id |-> <<"k1">>, title |-> <<"T2">>, source_section |-> <<"sec", 9>>]

KnowledgeItems == {<<>>, Item_titled, Item_named, NonDict}

Edge_good == [source_id |-> <<"k1">>, target_id |-> <<"k2">>, relation |-> <<"prerequisite">>]
Edge_no_target == [source_id |-> <<"k1">>]

RelationItems == {<<>>, Edge_good, Edge_no_target, [source_id |-> <<>>, target_id |-> <<"k2">>]}

MarkdownTexts == SeqsUpTo({" ", "#", "T1"}, MaxMd)

DocKnowledge == Responses(Usages, JsonTexts(KnowledgeItems))
DocRelations == Responses(Usages, JsonTexts(RelationItems))
DocMarkdown == Responses(Usages, MarkdownTexts)

RunKnowledge == Responses({Reported}, {JsonArray(<<Item_titled>>)})
RunRelations == Responses({Reported}, {JsonArray(<<Edge_good>>)})
RunMarkdown == Responses({Reported}, {<<"#", "T1">>, <<"T1">>})

(* the knowledge-extraction specification: the answers the generation service
   will give, one per section, are fixed with the arguments *)
Item_identified == [identifier |-> <<"k2">>]
Item_anonymous == [summary |-> <<"s">>, source_section |-> <<"elsewhere">>]
Item_empty_id == [id |-> <<>>, title |-> <<"T3">>]

ScriptItems == {<<>>, Item_titled, Item_named, Item_identified, Item_anonymous, Item_empty_id}

FirstAnswers ==
    {[error |-> FALSE, usage |-> Reported, text |-> JsonArray(items)] : items \in SeqsUpTo(ScriptItems, MaxItems)}
    \cup {[error |-> FALSE, usage |-> Reported, text |-> [fence |-> FALSE, kind |-> "garbage", items |-> <<>>]]}

SecondAnswers ==
    {[error |-> FALSE, usage |-> Reported, text |-> JsonArray(items)] : items \in SeqsUpTo(ScriptItems, 1)}
    \cup {Failed}

KnowledgeArgs ==
    [config : {YamlFile(YamlMap(Some(YamlList(<<Entry_a>>))))},
     input_list : {None},
     output_override : {None},
     api_key : {TRUE},
     answers : {<<first, second>> : first \in FirstAnswers, second \in SecondAnswers}]

KnowledgeContents == {Ok(<<Para>>), Ok(<<Para, H2, Para>>), Ok(<<H2>>)}

(* the validator specification: one section, whose answer is a list of units
   with a title the composed text has (T1), with a title it lacks (T2), or
   without a title, in up to three runs; the composed text is fixed as well *)
Repeat(item, n) == [k \in 1..n |-> item]

UnitRuns ==
    {Repeat(order[1], counts[1]) \o Repeat(order[2], counts[2]) \o Repeat(order[3], counts[3]) :
        order \in {o \in [1..3 -> {Item_titled, Item_named, Item_identified}] :
                      o[1] # o[2] /\ o[1] # o[3] /\ o[2] # o[3]},
        counts \in {c \in [1..3 -> 0..MaxUnits] : c[1] + c[2] + c[3] <= MaxUnits}}

ValidateArgs ==
    [config : {YamlFile(YamlMap(Some(YamlList(<<Entry_a>>))))},
     input_list : {None},
     output_override : {None},
     api_key : {TRUE},
     answers : {<<[error |-> FALSE, usage |-> Reported, text |-> JsonArray(items)]>> : items \in UnitRuns},
     markdown : MarkdownTexts]

ValidateContents == {Ok(<<Para>>)}

NoRelations == {[error |-> FALSE, usage |-> Reported, text |-> JsonArray(<<>>)]}

(* the messages handed to _run_request: those the generator builds itself
   hold input_text blocks only, the tests hand it plain strings and text
   blocks as well *)
ContentItems ==
    {PyStr(<<"hello">>),
     PyDict([type |-> "text", text |-> <<"world">>]),
     PyDict([type |-> "text", text |-> <<"world">>, detail |-> <<"low">>]),
     PyDict([type |-> "input_text", text |-> <<"hello">>]),
     PyDict([type |-> "input_image", image_url |-> <<"u">>]),
     PyDict([text |-> <<"world">>]),
     [py |-> "int", int |-> 7]}

Roles == <<"system", "user", "assistant">>

(* stands for a message without a content key *)
NoContent == <<[py |-> "missing"]>>

MessageLists ==
    {[k \in 1..Len(contents) |->
         IF contents[k] = NoContent THEN [role |-> Roles[k]]
         ELSE [role |-> Roles[k], content |-> contents[k]]] :
       contents \in SeqsUpTo(SeqsUpTo(ContentItems, MaxContents) \cup {NoContent}, MaxMessages)}

RequestArgs == [messages : MessageLists, api_key : {TRUE}]

RequestAnswers == Responses({Reported}, {<<"T1">>})

(* ---------------------------- state ------------------------------------ *)
VARIABLES
    args,           \* run()'s arguments and environment
    pc,             \* where run() is: "start", "loop", "invoke", "except", "returned", "raised"
    files,          \* config.files
    output_dir,     \* the output directory
    raised,         \* the exception run() ended with
    i,              \* index of file_cfg in config.files
    node,           \* the pipeline node to run next
    state,          \* the DocumentState of the running pipeline
    sec,            \* _extract_all_knowledge: index of the next section, 0 outside the loop
    knowledge,      \* _extract_all_knowledge: the accumulated list
    exc,            \* the exception pipeline.invoke ended with
    usage_totals,   \* MarkdownGenerator._usage_totals
    usage_before,   \* the snapshot taken before pipeline.invoke
    results,        \* the list run() returns
    writes,         \* files written so far: [doc, path, kind]
    doc,            \* the document the histories below belong to
    started,        \* nodes entered for `doc`
    completed,      \* nodes that returned for `doc`
    calls,          \* generation requests made for `doc`: [kind, section, data, outcome],
                    \* data being the array link_relations parsed
    snapshots,      \* snapshot_usage() calls made for `doc`
    found           \* what input_path.exists() answered for `doc`

vars == <<args, pc, files, output_dir, raised, i, node, state, sec, knowledge, exc,
          usage_totals, usage_before, results, writes, doc, started, completed, calls, snapshots,
          found>>

batchVars == <<args, files, output_dir, raised, i, results>>
histVars == <<doc, started, completed, calls, snapshots, found>>

InitWith(Args) ==
    /\ args \in Args
    /\ pc = "start"
    /\ files = <<>>
    /\ output_dir = <<>>
    /\ raised = None
    /\ i = 0
    /\ node = START
    /\ state = <<>>
    /\ sec = 0
    /\ knowledge = <<>>
    /\ exc = None
    /\ usage_totals = [field \in UsageFields |-> 0]
    /\ usage_before = [field \in UsageFields |-> 0]
    /\ results = <<>>
    /\ writes = <<>>
    /\ doc = 0
    /\ started = <<>>
    /\ completed = <<>>
    /\ calls = <<>>
    /\ snapshots = 0
    /\ found = FALSE

(* ---------------------------- runner.run: set-up ----------------------- *)
(* set-up without the duplicate-output check *)
LoadAll_unchecked(a) ==
    LET config == load_config(a.config, a.input_list # None) IN
    IF ~config.ok THEN config
    ELSE LET extra == IF a.input_list # None THEN load_file_list(a.input_list[1]) ELSE Ok(<<>>) IN
         IF ~extra.ok THEN extra
         ELSE LET all == config.value.files \o extra.value IN
              IF all = <<>> THEN Raise(ConfigError(<<"no_entries">>))
              ELSE Ok([files |-> all,
                       output_dir |-> IF a.output_override # None
                                      THEN Normalize(a.output_override[1], <<>>)
                                      ELSE config.value.output_dir])

(* lines 36-47: the configuration, or the ConfigError they raise *)
LoadAll(a) ==
    LET config == load_config(a.config, a.input_list # None) IN
    IF ~config.ok THEN config
    ELSE LET extra == IF a.input_list # None THEN load_file_list(a.input_list[1]) ELSE Ok(<<>>) IN
         IF ~extra.ok THEN extra
         ELSE LET all == config.value.files \o extra.value IN
              IF all = <<>> THEN Raise(ConfigError(<<"no_entries">>))
              ELSE LET dir == IF a.output_override # None
                              THEN Normalize(a.output_override[1], <<>>)
                              ELSE config.value.output_dir
                       unique == _ensure_unique_output_paths(all, dir)
                   IN IF ~unique.ok THEN unique
                      ELSE Ok([files |-> all, output_dir |-> dir])

(* MarkdownGenerator.__init__ *)
NewGenerator(a) ==
    IF ~a.api_key THEN Raise(Exc("RuntimeError", <<"OPENAI_API_KEY is not set">>))
    ELSE Ok([field \in UsageFields |-> 0])

Setup ==
    /\ pc = "start"
    /\ LET config == LoadAll(args)
           llm == NewGenerator(args)
       IN IF ~config.ok
          THEN /\ pc' = "raised"
               /\ raised' = Some(config.exc)
               /\ UNCHANGED <<files, output_dir, i, usage_totals>>
          ELSE IF ~llm.ok
          THEN /\ pc' = "raised"
               /\ raised' = Some(llm.exc)
               /\ UNCHANGED <<files, output_dir, i, usage_totals>>
          ELSE /\ pc' = "loop"
               /\ files' = config.value.files
               /\ output_dir' = config.value.output_dir
               /\ i' = 1
               /\ usage_totals' = llm.value
               /\ UNCHANGED raised
    /\ UNCHANGED <<args, node, state, sec, knowledge, exc, usage_before, results, writes>>
    /\ UNCHANGED histVars

(* ---------------------------- runner.run: the loop --------------------- *)
DocumentMetadata(input_path, output_path, title, context) ==
    [input_path |-> input_path, output_path |-> output_path, title |-> title, context |-> context]

_build_metadata(file_cfg, dir) ==
    DocumentMetadata(file_cfg.input, _resolve_output_path(file_cfg, dir), file_cfg.title, file_cfg.context)

DocumentResult(metadata, success, output_path, graph_path, report, error, usage_in, usage_out) ==
    [metadata |-> metadata, success |-> success, output_path |-> output_path,
     graph_path |-> graph_path, report |-> report, error |-> error,
     usage_input_tokens |-> usage_in, usage_output_tokens |-> usage_out]

(* the totals reported in place of the difference *)
_usage_delta_cumulative(before, after) == after

(* lines 138-140 *)
_usage_delta(before, after) == [key \in UsageFields |-> Max(0, after[key] - before[key])]

(* str(path) inside a message *)
PathStr(path) == <<path>>

ResetHistory ==
    /\ doc' = i
    /\ started' = <<>>
    /\ completed' = <<>>
    /\ calls' = <<>>
    /\ exc' = None

(* the missing-input branch without its `continue` *)
MissingInput_falls_through ==
    /\ pc = "loop"
    /\ i <= Len(files)
    /\ LET metadata == _build_metadata(files[i], output_dir) IN
       /\ results' = Append(results,
                            DocumentResult(metadata, FALSE, None, None, None,
                                           Some(<<"input file not found">> \o PathStr(metadata.input_path)),
                                           None, None))
       /\ state' = [metadata |-> metadata]
    /\ usage_before' = usage_totals
    /\ node' = Successor(START)
    /\ pc' = "invoke"
    /\ ResetHistory
    /\ snapshots' = 0
    /\ found' = FALSE
    /\ UNCHANGED <<args, files, output_dir, raised, i, sec, knowledge, usage_totals, writes>>

(* lines 53-63: the input file does not exist *)
MissingInput ==
    /\ pc = "loop"
    /\ i <= Len(files)
    /\ LET metadata == _build_metadata(files[i], output_dir) IN
       results' = Append(results,
                         DocumentResult(metadata, FALSE, None, None, None,
                                        Some(<<"input file not found">> \o PathStr(metadata.input_path)),
                                        None, None))
    /\ i' = i + 1
    /\ ResetHistory
    /\ snapshots' = 0
    /\ found' = FALSE
    /\ UNCHANGED <<args, pc, files, output_dir, raised, node, state, sec, knowledge,
                   usage_totals, usage_before, writes>>

(* lines 53-55, 65-67: the input file exists, the pipeline is invoked *)
InvokePipeline ==
    /\ pc = "loop"
    /\ i <= Len(files)
    /\ usage_before' = usage_totals
    /\ state' = [metadata |-> _build_metadata(files[i], output_dir)]
    /\ node' = Successor(START)
    /\ pc' = "invoke"
    /\ ResetHistory
    /\ snapshots' = 1
    /\ found' = TRUE
    /\ UNCHANGED <<args, files, output_dir, raised, i, sec, knowledge, usage_totals,
                   results, writes>>

(* the companion path left out of the result *)
RunSuccess_without_record ==
    /\ pc = "invoke"
    /\ node = END
    /\ LET metadata == state["metadata"]
           output_path == StateGet(state, "output_path", metadata.output_path)
           graph_path == None
           usage_delta == _usage_delta(usage_before, usage_totals)
       IN results' = Append(results,
                            DocumentResult(metadata, TRUE, Some(output_path), graph_path,
                                           IF "report" \in DOMAIN state THEN Some(state["report"]) ELSE None,
                                           None,
                                           Some(usage_delta["input_tokens"]),
                                           Some(usage_delta["output_tokens"])))
    /\ snapshots' = snapshots + 1
    /\ i' = i + 1
    /\ pc' = "loop"
    /\ UNCHANGED <<args, files, output_dir, raised, node, state, sec, knowledge, exc,
                   usage_totals, usage_before, writes, doc, started, completed, calls, found>>

(* lines 68-82 *)
RunSuccess ==
    /\ pc = "invoke"
    /\ node = END
    /\ LET metadata == state["metadata"]
           output_path == StateGet(state, "output_path", metadata.output_path)
           graph_path == IF StateGet(state, "graph_path", None) # None
                         THEN Some(state["graph_path"]) ELSE None
           usage_delta == _usage_delta(usage_before, usage_totals)
       IN results' = Append(results,
                            DocumentResult(metadata, TRUE, Some(output_path), graph_path,
                                           IF "report" \in DOMAIN state THEN Some(state["report"]) ELSE None,
                                           None,
                                           Some(usage_delta["input_tokens"]),
                                           Some(usage_delta["output_tokens"])))
    /\ snapshots' = snapshots + 1
    /\ i' = i + 1
    /\ pc' = "loop"
    /\ UNCHANGED <<args, files, output_dir, raised, node, state, sec, knowledge, exc,
                   usage_totals, usage_before, writes, doc, started, completed, calls, found>>

(* a failed document ending the batch *)
RunExcept_stops ==
    /\ pc = "except"
    /\ LET usage_delta == _usage_delta(usage_before, usage_totals) IN
       results' = Append(results,
                         DocumentResult(state["metadata"], FALSE, None, None, None,
                                        Some(exc[1].msg),
                                        Some(usage_delta["input_tokens"]),
                                        Some(usage_delta["output_tokens"])))
    /\ snapshots' = snapshots + 1
    /\ i' = i + 1
    /\ pc' = "returned"
    /\ UNCHANGED <<args, files, output_dir, raised, node, state, sec, knowledge, exc,
                   usage_totals, usage_before, writes, doc, started, completed, calls, found>>

(* lines 83-93 *)
RunExcept ==
    /\ pc = "except"
    /\ LET usage_delta == _usage_delta(usage_before, usage_totals) IN
       results' = Append(results,
                         DocumentResult(state["metadata"], FALSE, None, None, None,
                                        Some(exc[1].msg),
                                        Some(usage_delta["input_tokens"]),
                                        Some(usage_delta["output_tokens"])))
    /\ snapshots' = snapshots + 1
    /\ i' = i + 1
    /\ pc' = "loop"
    /\ UNCHANGED <<args, files, output_dir, raised, node, state, sec, knowledge, exc,
                   usage_totals, usage_before, writes, doc, started, completed, calls, found>>

(* line 95 *)
Return ==
    /\ pc = "loop"
    /\ i > Len(files)
    /\ pc' = "returned"
    /\ UNCHANGED <<args, files, output_dir, raised, i, node, state, sec, knowledge, exc,
                   usage_totals, usage_before, results, writes>>
    /\ UNCHANGED histVars

(* ---------------------------- pipeline nodes --------------------------- *)
AtNode(n) == pc = "invoke" /\ node = n

(* the node returned `update`: it is merged and the next node is scheduled *)
NodeReturns(n, update) ==
    /\ state' = Merge(state, update)
    /\ completed' = Append(completed, n)
    /\ node' = Successor(n)
    /\ UNCHANGED <<pc, exc>>

(* the error recorded but the graph carried on *)
NodeRaises_carries_on(e) ==
    /\ exc' = Some(e)
    /\ node' = Successor(node)
    /\ UNCHANGED <<pc, state, completed>>

(* the node raised `e`: pipeline.invoke propagates it to run() *)
NodeRaises(e) ==
    /\ exc' = Some(e)
    /\ pc' = "except"
    /\ UNCHANGED <<node, state, completed>>

(* MarkdownGenerator._run_request: one request, its usage recorded;
   the result is the (stripped) output text or the transport error *)
_run_request(response) ==
    IF response.error THEN Raise(Exc("APIError", <<"generation request failed">>))
    ELSE Ok(response.text)

UsageAfter(response) ==
    IF response.error THEN usage_totals ELSE _record_usage(usage_totals, response.usage)

Call(kind, section, data, result) ==
    [kind |-> kind, section |-> section, data |-> IF data.ok THEN data.value ELSE <<>>,
     outcome |-> IF result.ok THEN "ok" ELSE result.exc.type]

_load_html(Contents) ==
    /\ AtNode("load_html")
    /\ started' = Append(started, "load_html")
    /\ \E content \in Contents :
          IF content.ok THEN NodeReturns("load_html", [html |-> content.value])
          ELSE NodeRaises(content.exc)
    /\ UNCHANGED <<sec, knowledge, usage_totals, usage_before, writes, doc, calls, snapshots, found>>
    /\ UNCHANGED batchVars

_parse_html ==
    /\ AtNode("parse_html")
    /\ started' = Append(started, "parse_html")
    /\ LET parsed == _extract_sections_and_assets(state["html"]) IN
       NodeReturns("parse_html", [sections |-> parsed.sections, assets |-> parsed.assets])
    /\ UNCHANGED <<sec, knowledge, usage_totals, usage_before, writes, doc, calls, snapshots, found>>
    /\ UNCHANGED batchVars

_summarize_structure_node ==
    /\ AtNode("summarize_structure")
    /\ started' = Append(started, "summarize_structure")
    /\ NodeReturns("summarize_structure",
                   [outline |-> _build_outline(StateGet(state, "sections", <<>>))])
    /\ UNCHANGED <<sec, knowledge, usage_totals, usage_before, writes, doc, calls, snapshots, found>>
    /\ UNCHANGED batchVars

(* _extract_knowledge_node up to the loop of _extract_all_knowledge *)
_extract_knowledge_node ==
    /\ AtNode("extract_knowledge")
    /\ sec = 0
    /\ started' = Append(started, "extract_knowledge")
    /\ sec' = 1
    /\ knowledge' = <<>>
    /\ UNCHANGED <<pc, node, state, exc, usage_totals, usage_before, writes, doc, completed,
                   calls, snapshots, found>>
    /\ UNCHANGED batchVars

(* a section whose request failed is skipped *)
extract_knowledge_skipping(Answers) ==
    /\ AtNode("extract_knowledge")
    /\ sec \in 1..Len(StateGet(state, "sections", <<>>))
    /\ \E response \in Answers :
          LET section == state["sections"][sec]
              text == _run_request(response)
              data == IF text.ok THEN _parse_json(text.value) ELSE text
              units == IF data.ok THEN BuildUnits(data.value, 1, section, <<>>) ELSE data
          IN /\ usage_totals' = UsageAfter(response)
             /\ calls' = Append(calls, Call("extract_knowledge", sec, Ok(<<>>), units))
             /\ knowledge' = IF units.ok THEN knowledge \o units.value ELSE knowledge
             /\ sec' = sec + 1
             /\ UNCHANGED <<pc, node, state, exc, completed>>
    /\ UNCHANGED <<usage_before, writes, doc, started, snapshots, found>>
    /\ UNCHANGED batchVars

(* one iteration of _extract_all_knowledge: llm.extract_knowledge(section) *)
extract_knowledge(Answers) ==
    /\ AtNode("extract_knowledge")
    /\ sec \in 1..Len(StateGet(state, "sections", <<>>))
    /\ \E response \in Answers :
          LET section == state["sections"][sec]
              text == _run_request(response)
              data == IF text.ok THEN _parse_json(text.value) ELSE text
              units == IF data.ok THEN BuildUnits(data.value, 1, section, <<>>) ELSE data
          IN /\ usage_totals' = UsageAfter(response)
             /\ calls' = Append(calls, Call("extract_knowledge", sec, Ok(<<>>), units))
             /\ IF units.ok
                THEN /\ knowledge' = knowledge \o units.value
                     /\ sec' = sec + 1
                     /\ UNCHANGED <<pc, node, state, exc, completed>>
                ELSE /\ NodeRaises(units.exc)
                     /\ sec' = 0
                     /\ UNCHANGED knowledge
    /\ UNCHANGED <<usage_before, writes, doc, started, snapshots, found>>
    /\ UNCHANGED batchVars

(* the loop of _extract_all_knowledge is over: the node returns *)
_extract_all_knowledge ==
    /\ AtNode("extract_knowledge")
    /\ sec > Len(StateGet(state, "sections", <<>>))
    /\ NodeReturns("extract_knowledge", [knowledge_items |-> knowledge])
    /\ sec' = 0
    /\ UNCHANGED <<knowledge, usage_totals, usage_before, writes, doc, started, calls, snapshots, found>>
    /\ UNCHANGED batchVars

(* link_relations without the short-circuit on an empty list *)
link_relations_always_asks(Answers) ==
    /\ AtNode("link_relations")
    /\ started' = Append(started, "link_relations")
    /\ \E response \in Answers :
          LET text == _run_request(response)
              data == IF text.ok THEN _parse_json(text.value) ELSE text
              edges == IF data.ok THEN BuildEdges(data.value, <<>>) ELSE data
          IN /\ usage_totals' = UsageAfter(response)
             /\ calls' = Append(calls, Call("link_relations", 0, data, edges))
             /\ IF edges.ok THEN NodeReturns("link_relations", [relationships |-> edges.value])
                ELSE NodeRaises(edges.exc)
    /\ UNCHANGED <<sec, knowledge, usage_before, writes, doc, snapshots, found>>
    /\ UNCHANGED batchVars

(* _link_relations_node with llm.link_relations *)
link_relations(Answers) ==
    /\ AtNode("link_relations")
    /\ started' = Append(started, "link_relations")
    /\ IF StateGet(state, "knowledge_items", <<>>) = <<>>
       THEN /\ NodeReturns("link_relations", [relationships |-> <<>>])
            /\ UNCHANGED <<usage_totals, calls>>
       ELSE \E response \in Answers :
               LET text == _run_request(response)
                   data == IF text.ok THEN _parse_json(text.value) ELSE text
                   edges == IF data.ok THEN BuildEdges(data.value, <<>>) ELSE data
               IN /\ usage_totals' = UsageAfter(response)
                  /\ calls' = Append(calls, Call("link_relations", 0, data, edges))
                  /\ IF edges.ok THEN NodeReturns("link_relations", [relationships |-> edges.value])
                     ELSE NodeRaises(edges.exc)
    /\ UNCHANGED <<sec, knowledge, usage_before, writes, doc, snapshots, found>>
    /\ UNCHANGED batchVars

(* _compose_markdown_node with llm.compose_markdown *)
compose_markdown(Answers) ==
    /\ AtNode("compose_markdown")
    /\ started' = Append(started, "compose_markdown")
    /\ \E response \in Answers :
          LET text == _run_request(response) IN
          /\ usage_totals' = UsageAfter(response)
          /\ calls' = Append(calls, Call("compose_markdown", 0, Ok(<<>>), text))
          /\ IF text.ok THEN NodeReturns("compose_markdown", [markdown |-> Strip(text.value)])
             ELSE NodeRaises(text.exc)
    /\ UNCHANGED <<sec, knowledge, usage_before, writes, doc, snapshots, found>>
    /\ UNCHANGED batchVars

ValidationFailed(report) ==
    Exc("ValueError", <<"markdown validation failed">> \o Join(<<" / ">>, [k \in 1..Len(report.issues) |-> <<report.issues[k]>>]))

(* the report returned whatever it says *)
_validate_output_lenient ==
    /\ AtNode("validate_output")
    /\ started' = Append(started, "validate_output")
    /\ NodeReturns("validate_output",
                   [report |-> _validate_markdown(state["markdown"],
                                                  StateGet(state, "knowledge_items", <<>>))])
    /\ UNCHANGED <<sec, knowledge, usage_totals, usage_before, writes, doc, calls, snapshots, found>>
    /\ UNCHANGED batchVars

_validate_output ==
    /\ AtNode("validate_output")
    /\ started' = Append(started, "validate_output")
    /\ LET report == _validate_markdown(state["markdown"], StateGet(state, "knowledge_items", <<>>)) IN
       IF ~report.valid THEN NodeRaises(ValidationFailed(report))
       ELSE NodeReturns("validate_output", [report |-> report])
    /\ UNCHANGED <<sec, knowledge, usage_totals, usage_before, writes, doc, calls, snapshots, found>>
    /\ UNCHANGED batchVars

(* the report's verdict negated in the record *)
ValidationBlock_negated(st) ==
    IF "report" \in DOMAIN st THEN [valid |-> ~st["report"].valid, issues |-> st["report"].issues]
    ELSE [valid |-> TRUE, issues |-> <<>>]

(* the companion record's validation block *)
ValidationBlock(st) ==
    IF "report" \in DOMAIN st THEN [valid |-> st["report"].valid, issues |-> st["report"].issues]
    ELSE [valid |-> TRUE, issues |-> <<>>]

Written(path, kind, validation) == [doc |-> doc, path |-> path, kind |-> kind, validation |-> validation]

(* the companion record written before the text *)
_persist_markdown_companion_first ==
    /\ AtNode("persist_markdown")
    /\ started' = Append(started, "persist_markdown")
    /\ LET metadata == state["metadata"]
           graph_path == WithSuffix(metadata.output_path, ".json")
           primary == Written(metadata.output_path, "markdown", None)
           companion == Written(graph_path, "json", Some(ValidationBlock(state)))
       IN \E failure \in {"none", "primary", "companion"} :
             IF failure = "companion"
             THEN /\ NodeRaises(Exc("OSError", <<"cannot write companion">>))
                  /\ UNCHANGED writes
             ELSE IF failure = "primary"
             THEN /\ NodeRaises(Exc("OSError", <<"cannot write output">>))
                  /\ writes' = Append(writes, companion)
             ELSE /\ NodeReturns("persist_markdown",
                                 [output_path |-> metadata.output_path, graph_path |-> graph_path])
                  /\ writes' = Append(Append(writes, companion), primary)
    /\ UNCHANGED <<sec, knowledge, usage_totals, usage_before, doc, calls, snapshots, found>>
    /\ UNCHANGED batchVars

(* either write_text can fail with an OSError *)
_persist_markdown ==
    /\ AtNode("persist_markdown")
    /\ started' = Append(started, "persist_markdown")
    /\ LET metadata == state["metadata"]
           graph_path == WithSuffix(metadata.output_path, ".json")
           primary == Written(metadata.output_path, "markdown", None)
           companion == Written(graph_path, "json", Some(ValidationBlock(state)))
       IN \E failure \in {"none", "primary", "companion"} :
             IF failure = "primary"
             THEN /\ NodeRaises(Exc("OSError", <<"cannot write output">>))
                  /\ UNCHANGED writes
             ELSE IF failure = "companion"
             THEN /\ NodeRaises(Exc("OSError", <<"cannot write companion">>))
                  /\ writes' = Append(writes, primary)
             ELSE /\ NodeReturns("persist_markdown",
                                 [output_path |-> metadata.output_path, graph_path |-> graph_path])
                  /\ writes' = Append(Append(writes, primary), companion)
    /\ UNCHANGED <<sec, knowledge, usage_totals, usage_before, doc, calls, snapshots, found>>
    /\ UNCHANGED batchVars

(* ---------------------------- cli.py ---------------------------------- *)
(* a command-line argument is a tuple of pieces of text, cut where the
   checks of cli.py and of the option parser look *)
LEGACY_OPTION_NAMES == {<<"-", "-", "config">>, <<"-", "c">>, <<"-", "-", "output-dir">>, <<"-", "-", "inputs">>}
LEGACY_PREFIXES == {<<"-", "-", "config", "=">>, <<"-", "-", "output-dir", "=">>, <<"-", "-", "inputs", "=">>}

RunCommand == <<"run">>
HelpOption == <<"-", "-", "help">>

(* app.registered_commands: the callback is not a command *)
known_commands == {RunCommand}

(* lines 74-82 *)
_contains_legacy_run_option(argv) ==
    \E k \in 1..Len(argv) :
       \/ argv[k] \in LEGACY_OPTION_NAMES
       \/ \E prefix \in LEGACY_PREFIXES : IsPrefix(prefix, argv[k])
       \/ /\ IsPrefix(<<"-", "c">>, argv[k])
          /\ argv[k] \notin {<<"-", "c">>, <<"-", "-", "config">>}
          /\ ~IsPrefix(<<"-", "-">>, argv[k])

(* `run` prepended whenever a legacy option is found *)
_inject_legacy_command_unconditionally(argv) ==
    IF argv = <<>> THEN argv
    ELSE IF _contains_legacy_run_option(argv) THEN <<RunCommand>> \o argv
    ELSE argv

(* lines 85-97 *)
_inject_legacy_command(argv) ==
    IF argv = <<>> THEN argv
    ELSE IF Head(argv) \in known_commands THEN argv
    ELSE IF _contains_legacy_run_option(argv) THEN <<RunCommand>> \o argv
    ELSE argv

UsageError(msg) == Exc("UsageError", msg)

(* the options declared by run_command (lines 59-68), as the option parser
   reads them: a name followed by its value, name=value, or -cVALUE *)
OptionNames == [config |-> {<<"-", "-", "config">>, <<"-", "c">>},
                output_dir |-> {<<"-", "-", "output-dir">>},
                input_list |-> {<<"-", "-", "inputs">>}]

NoOptions == [config |-> None, output_dir |-> None, input_list |-> None, help |-> FALSE, extra |-> FALSE]

RECURSIVE ParseOptions(_, _)
ParseOptions(rest, opts) ==
    IF rest = <<>> THEN Ok(opts)
    ELSE LET arg == Head(rest)
             named == {key \in DOMAIN OptionNames : arg \in OptionNames[key]}
             assigned == {key \in DOMAIN OptionNames :
                            \E name \in OptionNames[key] :
                               /\ Len(name) = 3
                               /\ IsPrefix(name \o <<"=">>, arg)}
         IN IF named # {}
            THEN IF Len(rest) < 2 THEN Raise(UsageError(<<"option requires an argument">>))
                 ELSE ParseOptions(Tail(Tail(rest)),
                                   [opts EXCEPT ![CHOOSE key \in named : TRUE] = Some(rest[2])])
            ELSE IF assigned # {}
            THEN ParseOptions(Tail(rest),
                              [opts EXCEPT ![CHOOSE key \in assigned : TRUE] = Some(SubSeq(arg, 5, Len(arg)))])
            ELSE IF IsPrefix(<<"-", "c">>, arg)
            THEN ParseOptions(Tail(rest), [opts EXCEPT !.config = Some(SubSeq(arg, 3, Len(arg)))])
            ELSE IF arg = HelpOption
            THEN ParseOptions(Tail(rest), [opts EXCEPT !.help = TRUE])
            ELSE IF IsPrefix(<<"-">>, arg) THEN Raise(UsageError(<<"no such option">>))
            ELSE ParseOptions(Tail(rest), [opts EXCEPT !.extra = TRUE])

(* command.main(args=normalized): the call of run_command it ends in, or the
   exit it ends in without one (lines 14-17, 59-71, 117-118) *)
Dispatch(normalized) ==
    IF normalized = <<>> THEN Raise(Exc("Exit", <<"help">>))
    ELSE IF Head(normalized) = HelpOption THEN Raise(Exc("Exit", <<"help">>))
    ELSE IF IsPrefix(<<"-">>, Head(normalized)) THEN Raise(UsageError(<<"no such option">>))
    ELSE IF Head(normalized) \notin known_commands THEN Raise(UsageError(<<"no such command">>))
    ELSE LET parsed == ParseOptions(Tail(normalized), NoOptions) IN
         IF ~parsed.ok THEN parsed
         ELSE IF parsed.value.help THEN Raise(Exc("Exit", <<"help">>))
         ELSE IF parsed.value.config = None THEN Raise(UsageError(<<"missing option">>))
         ELSE IF parsed.value.extra THEN Raise(UsageError(<<"unexpected extra argument">>))
         ELSE Ok([config |-> parsed.value.config[1],
                  output_override |-> parsed.value.output_dir,
                  input_list |-> parsed.value.input_list])

(* the command lines, and the files their values name *)
ArgWords ==
    {RunCommand, HelpOption, <<"X">>,
     <<"-", "-", "config">>, <<"-", "c">>, <<"-", "c", "X">>, <<"-", "-", "config", "=", "X">>,
     <<"-", "-", "config", "s">>,
     <<"-", "-", "output-dir">>, <<"-", "-", "output-dir", "=", "Y">>,
     <<"-", "-", "inputs">>, <<"-", "-", "inputs", "=", "Z">>,
     <<"-", "x">>}

FileAt(name) ==
    IF name = <<"X">> THEN YamlFile(YamlMap(Some(YamlList(<<Entry_a>>))))
    ELSE IF name = <<"Z">> THEN YamlFile(YamlList(<<[kind |-> "str", input |-> Entry_y_manual.input]>>))
    ELSE NoFile

CliArgs ==
    [argv : SeqsUpTo(ArgWords, MaxArgs),
     normalized : {<<>>},
     called : {<<>>},
     config : {NoFile},
     input_list : {None},
     output_override : {None},
     api_key : {TRUE}]

(* lines 111-118, 59-71, 28-32: main() up to the call of run() *)
main ==
    /\ pc = "main"
    /\ LET normalized == _inject_legacy_command(args.argv)
           command == Dispatch(normalized)
       IN IF command.ok
          THEN /\ args' = [args EXCEPT
                             !.normalized = normalized,
                             !.called = Append(@, command.value),
                             !.config = FileAt(command.value.config),
                             !.output_override = command.value.output_override,
                             !.input_list = IF command.value.input_list = None THEN None
                                            ELSE Some(FileAt(command.value.input_list[1]))]
               /\ pc' = "start"
               /\ UNCHANGED raised
          ELSE /\ args' = [args EXCEPT !.normalized = normalized]
               /\ pc' = "exited"
               /\ raised' = Some(command.exc)
    /\ UNCHANGED <<files, output_dir, i, node, state, sec, knowledge, exc, usage_totals,
                   usage_before, results, writes>>
    /\ UNCHANGED histVars

(* lines 233-243: generator._run_request(messages) called on a generator
   of its own, as the tests do *)
RunRequest(Answers) ==
    /\ pc = "generator"
    /\ \E response \in Answers :
          LET normalized_messages == _normalize_messages(args.messages)
              text == _run_request(response)
          IN /\ calls' = Append(calls, [kind |-> "request", input |-> normalized_messages,
                                        outcome |-> IF text.ok THEN "ok" ELSE text.exc.type])
             /\ usage_totals' = UsageAfter(response)
             /\ IF text.ok
                THEN /\ pc' = "requested"
                     /\ UNCHANGED raised
                ELSE /\ pc' = "raised"
                     /\ raised' = Some(text.exc)
    /\ UNCHANGED <<args, files, output_dir, i, node, state, sec, knowledge, exc, usage_before,
                   results, writes, doc, started, completed, snapshots, found>>

(* ---------------------------- specifications ------------------------- *)
(* the whole run: every configuration, a terse generation service *)
Init == InitWith(RunArgs)

Next ==
    \/ Setup
    \/ MissingInput
    \/ InvokePipeline
    \/ _load_html(RunContents)
    \/ _parse_html
    \/ _summarize_structure_node
    \/ _extract_knowledge_node
    \/ extract_knowledge(RunKnowledge)
    \/ _extract_all_knowledge
    \/ link_relations(RunRelations)
    \/ compose_markdown(RunMarkdown)
    \/ _validate_output
    \/ _persist_markdown
    \/ RunSuccess
    \/ RunExcept
    \/ Return

Spec == Init /\ [][Next]_vars

(* one document: every answer the generation service can give *)
InitDoc == InitWith(DocArgs)

NextDoc ==
    \/ Setup
    \/ MissingInput
    \/ InvokePipeline
    \/ _load_html(DocContents)
    \/ _parse_html
    \/ _summarize_structure_node
    \/ _extract_knowledge_node
    \/ extract_knowledge(DocKnowledge)
    \/ _extract_all_knowledge
    \/ link_relations(DocRelations)
    \/ compose_markdown(DocMarkdown)
    \/ _validate_output
    \/ _persist_markdown
    \/ RunSuccess
    \/ RunExcept
    \/ Return

SpecDoc == InitDoc /\ [][NextDoc]_vars

(* the configuration checks alone, over the output-path configurations *)
InitConfig == InitWith(ConfigArgs)

NextConfig == Setup

SpecConfig == InitConfig /\ [][NextConfig]_vars

(* the structural extractor alone, over every small document *)
InitExtract == InitWith(DocArgs)

NextExtract ==
    \/ Setup
    \/ InvokePipeline
    \/ _load_html(ExtractContents)
    \/ _parse_html

SpecExtract == InitExtract /\ [][NextExtract]_vars

(* the knowledge extraction of one document, with scripted answers *)
InitKnowledge == InitWith(KnowledgeArgs)

ScriptedAnswers == IF sec \in 1..Len(args.answers) THEN {args.answers[sec]} ELSE {}

NextKnowledge ==
    \/ Setup
    \/ InvokePipeline
    \/ _load_html(KnowledgeContents)
    \/ _parse_html
    \/ _summarize_structure_node
    \/ _extract_knowledge_node
    \/ extract_knowledge(ScriptedAnswers)
    \/ _extract_all_knowledge

SpecKnowledge == InitKnowledge /\ [][NextKnowledge]_vars

(* the validation of one composed text against one knowledge list *)
InitValidate == InitWith(ValidateArgs)

ScriptedMarkdown == {[error |-> FALSE, usage |-> Reported, text |-> args.markdown]}

NextValidate ==
    \/ Setup
    \/ InvokePipeline
    \/ _load_html(ValidateContents)
    \/ _parse_html
    \/ _summarize_structure_node
    \/ _extract_knowledge_node
    \/ extract_knowledge(ScriptedAnswers)
    \/ _extract_all_knowledge
    \/ link_relations(NoRelations)
    \/ compose_markdown(ScriptedMarkdown)
    \/ _validate_output

SpecValidate == InitValidate /\ [][NextValidate]_vars

(* one document persisted again and again: run() is called once more with
   the same arguments, on the files the earlier calls left *)
RunAgain ==
    /\ pc = "returned"
    /\ Len(writes) < MaxWrites
    /\ pc' = "start"
    /\ files' = <<>>
    /\ output_dir' = <<>>
    /\ raised' = None
    /\ i' = 0
    /\ node' = START
    /\ state' = <<>>
    /\ sec' = 0
    /\ knowledge' = <<>>
    /\ exc' = None
    /\ usage_totals' = [field \in UsageFields |-> 0]
    /\ usage_before' = [field \in UsageFields |-> 0]
    /\ results' = <<>>
    /\ doc' = 0
    /\ started' = <<>>
    /\ completed' = <<>>
    /\ calls' = <<>>
    /\ snapshots' = 0
    /\ found' = FALSE
    /\ UNCHANGED <<args, writes>>

InitPersist == InitWith(DocArgs)

NextPersist ==
    \/ Setup
    \/ MissingInput
    \/ InvokePipeline
    \/ _load_html(RunContents)
    \/ _parse_html
    \/ _summarize_structure_node
    \/ _extract_knowledge_node
    \/ extract_knowledge(RunKnowledge)
    \/ _extract_all_knowledge
    \/ link_relations(RunRelations)
    \/ compose_markdown(RunMarkdown)
    \/ _validate_output
    \/ _persist_markdown
    \/ RunSuccess
    \/ RunExcept
    \/ Return
    \/ RunAgain

SpecPersist == InitPersist /\ [][NextPersist]_vars

(* the command line: main() and the set-up of the run it starts *)
InitCli ==
    /\ args \in CliArgs
    /\ pc = "main"
    /\ files = <<>>
    /\ output_dir = <<>>
    /\ raised = None
    /\ i = 0
    /\ node = START
    /\ state = <<>>
    /\ sec = 0
    /\ knowledge = <<>>
    /\ exc = None
    /\ usage_totals = [field \in UsageFields |-> 0]
    /\ usage_before = [field \in UsageFields |-> 0]
    /\ results = <<>>
    /\ writes = <<>>
    /\ doc = 0
    /\ started = <<>>
    /\ completed = <<>>
    /\ calls = <<>>
    /\ snapshots = 0
    /\ found = FALSE

NextCli == main \/ Setup

SpecCli == InitCli /\ [][NextCli]_vars

(* one request sent through a generator *)
InitRequest ==
    /\ args \in RequestArgs
    /\ pc = "generator"
    /\ files = <<>>
    /\ output_dir = <<>>
    /\ raised = None
    /\ i = 0
    /\ node = START
    /\ state = <<>>
    /\ sec = 0
    /\ knowledge = <<>>
    /\ exc = None
    /\ usage_totals = NewGenerator(args).value
    /\ usage_before = [field \in UsageFields |-> 0]
    /\ results = <<>>
    /\ writes = <<>>
    /\ doc = 0
    /\ started = <<>>
    /\ completed = <<>>
    /\ calls = <<>>
    /\ snapshots = 0
    /\ found = FALSE

NextRequest == RunRequest(RequestAnswers)

SpecRequest == InitRequest /\ [][NextRequest]_vars

(* the whole run over the batches of explicit outputs *)
InitOutputs == InitWith(OutputArgs)

SpecOutputs == InitOutputs /\ [][Next]_vars

(* ---------------------------- properties ------------------------------- *)
StageOrder == <<"load_html", "parse_html", "summarize_structure", "extract_knowledge",
                "link_relations", "compose_markdown", "validate_output", "persist_markdown">>

WrittenFor(d) == {k \in 1..Len(writes) : writes[k].doc = d}

Sections == StateGet(state, "sections", <<>>)

CallsOf(kind) == {k \in 1..Len(calls) : calls[k].kind = kind}

(* C1: the stages of a document run in the fixed order load_html, parse_html,
   summarize_structure, extract_knowledge, link_relations, compose_markdown,
   validate_output, persist_markdown: the stages entered so far are a prefix of
   that order (so each runs at most once and none is re-entered), a stage is
   entered only when all its predecessors have returned, and the stage
   scheduled next is the one after the last that returned. *)
C1_StageOrder ==
    /\ IsPrefix(started, StageOrder)
    /\ IsPrefix(completed, started)
    /\ Len(started) <= Len(completed) + 1
    /\ (pc = "invoke" /\ node # END => node = StageOrder[Len(completed) + 1])
    /\ (pc = "invoke" /\ node = END => completed = StageOrder)

C1_Witness == doc = 2 /\ completed = StageOrder

(* the issues the validator reports for the composed text of the document *)
ValidatorIssues ==
    IF "validate_output" \in Range(started)
    THEN _validate_markdown(state["markdown"], StateGet(state, "knowledge_items", <<>>)).issues
    ELSE <<>>

(* C2: when the validator reports an issue for the composed text, the persist
   stage is not executed, the document writes neither its output nor its
   companion record, and its result is a failure whose error contains every
   reported issue. *)
C2_InvalidNeverPersisted ==
    ValidatorIssues # <<>> =>
        /\ "persist_markdown" \notin Range(started)
        /\ WrittenFor(doc) = {}
        /\ pc \in {"except", "loop", "returned"}
        /\ (pc # "except" =>
              /\ Len(results) = doc
              /\ ~results[doc].success
              /\ \A k \in 1..Len(ValidatorIssues) :
                    Contains(results[doc].error[1], <<ValidatorIssues[k]>>))

C2_Witness ==
    /\ pc = "returned"
    /\ IssueNoTitle \in Range(ValidatorIssues)
    /\ IssueCoverage \in Range(ValidatorIssues)
    /\ ~results[doc].success

(* C3: a failure raised by a stage ends the document's run: the failing stage is
   the last one entered, and the document ends either persisted (all stages
   returned, a success result with both paths, both files written) or aborted
   (a failure result carrying the message of the error that was raised). *)
C3_AbortOrPersist ==
    (doc >= 1 /\ found) =>
        /\ (exc # None => /\ pc \in {"except", "loop", "returned"}
                          /\ started = Append(completed, started[Len(started)]))
        /\ (exc = None /\ pc # "invoke" => completed = StageOrder)
        /\ (pc \in {"loop", "returned"} => Len(results) = doc)
        /\ (Len(results) = doc =>
              LET r == results[doc] IN
              \/ /\ r.success
                 /\ exc = None
                 /\ completed = StageOrder
                 /\ r.error = None
                 /\ r.output_path = Some(state["output_path"])
                 /\ r.graph_path = Some(state["graph_path"])
                 /\ {writes[k].path : k \in WrittenFor(doc)} = {state["output_path"], state["graph_path"]}
              \/ /\ ~r.success
                 /\ exc # None
                 /\ r.error = Some(exc[1].msg)
                 /\ r.output_path = None
                 /\ r.graph_path = None
                 /\ "persist_markdown" \notin Range(completed))

C3_Witness ==
    /\ pc = "returned"
    /\ Len(results) = 2
    /\ ~results[1].success
    /\ results[2].success
    /\ started = StageOrder

(* the inputs of the configured entries: `files` of the configuration first,
   then the entries of the input list *)
RawItems(file) ==
    IF ~file.exists THEN <<>>
    ELSE IF file.yaml.kind = "list" THEN file.yaml.items
    ELSE IF file.yaml.kind = "map" /\ file.yaml.files # None /\ file.yaml.files[1].kind = "list"
    THEN file.yaml.files[1].items
    ELSE <<>>

ConfiguredEntries ==
    RawItems(args.config) \o (IF args.input_list # None THEN RawItems(args.input_list[1]) ELSE <<>>)

ConfiguredInputs ==
    [k \in 1..Len(ConfiguredEntries) |-> _resolve_path(ConfiguredEntries[k].input[1], BaseDir)]

(* C4: once set-up has passed, run() returns exactly one result per configured
   document in configuration order (config `files` first, then the input list);
   documents are processed one at a time, the one in the pipeline being the
   first without a result; a failed document is followed by the next one; and
   a result, once appended, is never changed. *)
C4_Inv ==
    pc \in {"loop", "invoke", "except", "returned"} =>
        /\ [k \in 1..Len(files) |-> files[k].input] = ConfiguredInputs
        /\ Len(results) = i - 1
        /\ i <= Len(files) + 1
        /\ \A k \in 1..Len(results) : results[k].metadata.input_path = files[k].input
        /\ (pc \in {"invoke", "except"} => doc = i /\ i <= Len(files))
        /\ (pc = "loop" /\ i <= Len(files) => ENABLED InvokePipeline /\ ENABLED MissingInput)
        /\ (pc = "returned" => Len(results) = Len(files))

C4_OneResultPerDocument == []C4_Inv /\ [][IsPrefix(results, results')]_vars

C4_Witness ==
    /\ pc = "returned"
    /\ Len(results) = 3
    /\ ~results[1].success /\ results[1].usage_input_tokens # None
    /\ ~results[2].success /\ results[2].usage_input_tokens = None
    /\ results[3].success

(* the final output path of an entry: the explicit `output` if given, resolved
   against the output directory when relative, else <output_dir>/<stem>.md *)
OutputDirOf(a) ==
    IF a.output_override # None THEN Normalize(a.output_override[1], <<>>) ELSE <<"proj", "output">>

FinalOutput(entry, dir) ==
    IF entry.kind = "str" \/ entry.output = None
    THEN MkPath(dir, entry.input[1].stem, ".md")
    ELSE IF entry.output[1].abs
    THEN MkPath(entry.output[1].dir, entry.output[1].stem, entry.output[1].suffix)
    ELSE MkPath(Normalize(dir \o entry.output[1].dir, <<>>), entry.output[1].stem, entry.output[1].suffix)

WellFormed(file) ==
    /\ file.exists
    /\ file.yaml.kind \in {"map", "empty"}
    /\ (file.yaml.kind = "map" /\ file.yaml.files # None => file.yaml.files[1].kind = "list")

(* two entries with the same final output path *)
Colliding(entries, dir) ==
    {FinalOutput(entries[k], dir) : k \in {m \in 1..Len(entries) :
        \E n \in 1..Len(entries) : n # m /\ FinalOutput(entries[n], dir) = FinalOutput(entries[m], dir)}}

(* the faults of a configuration the claim lists *)
ConfigFault ==
    \/ ~WellFormed(args.config)
    \/ \E k \in 1..Len(ConfiguredEntries) : ConfiguredEntries[k].input = None
    \/ ConfiguredEntries = <<>>
    \/ Colliding(ConfiguredEntries, OutputDirOf(args)) # {}

IsConfigError == pc = "raised" /\ raised[1].type = "ConfigError"

(* C5: a configuration with a fault (missing or malformed file, an entry
   without `input`, no entry at all, two entries with one output) makes run()
   raise ConfigError, and when run() raises ConfigError no stage has run, no
   request has been made, nothing has been written and there is no result. *)
C5_ConfigErrorBeforeProcessing ==
    /\ (pc # "start" /\ ConfigFault => IsConfigError)
    /\ (IsConfigError =>
          /\ results = <<>>
          /\ writes = <<>>
          /\ doc = 0 /\ started = <<>> /\ completed = <<>> /\ calls = <<>> /\ snapshots = 0
          /\ state = <<>>
          /\ usage_totals = [field \in UsageFields |-> 0]
          /\ ~ENABLED Next)

C5_Witness == IsConfigError /\ raised[1].msg[1] = "duplicate_output" /\ args.input_list # None

(* C6: _ensure_unique_output_paths raises ConfigError exactly when two entries
   have the same final output path; the message then lists exactly the
   colliding paths, each with all the inputs that map to it; otherwise the
   entries are accepted (so equal stems with different outputs are). *)
C6_DuplicateOutputs ==
    (pc # "start" /\ ConfiguredEntries # <<>>) =>
        LET dir == OutputDirOf(args)
            colliding == Colliding(ConfiguredEntries, dir)
            InputsOf(path) ==
                LET Maps(k) == FinalOutput(ConfiguredEntries[k], dir) = path
                    hits == SelectSeq([k \in 1..Len(ConfiguredEntries) |-> k], Maps)
                IN [m \in 1..Len(hits) |-> ConfiguredInputs[hits[m]]]
        IN IF colliding = {}
           THEN pc = "loop" /\ Len(files) = Len(ConfiguredEntries)
           ELSE /\ IsConfigError
                /\ raised[1].msg[1] = "duplicate_output"
                /\ LET summary == raised[1].msg[2] IN
                   /\ Len(summary) = Cardinality(colliding)
                   /\ {summary[k][1] : k \in 1..Len(summary)} = colliding
                   /\ \A k \in 1..Len(summary) : summary[k][2] = InputsOf(summary[k][1])

C6_Witness ==
    /\ IsConfigError
    /\ raised[1].msg[1] = "duplicate_output"
    /\ Len(raised[1].msg[2]) = 2
    /\ \E k \in 1..2 : Len(raised[1].msg[2][k][2]) = 2 /\ raised[1].msg[2][k][2][1].stem # raised[1].msg[2][k][2][2].stem

(* C7: a document whose input file does not exist gets a failed result that
   names the missing path; no stage runs for it, no request is made, nothing is
   written, no usage snapshot is taken, and the loop moves on to the next
   document. *)
C7_MissingInput ==
    (doc >= 1 /\ ~found) =>
        /\ Len(results) >= doc
        /\ ~results[doc].success
        /\ results[doc].error = Some(<<"input file not found", files[doc].input>>)
        /\ results[doc].usage_input_tokens = None
        /\ results[doc].usage_output_tokens = None
        /\ started = <<>> /\ completed = <<>> /\ calls = <<>>
        /\ snapshots = 0
        /\ WrittenFor(doc) = {}
        /\ i = doc + 1
        /\ pc \in {"loop", "returned"}
        /\ (pc = "loop" /\ i <= Len(files) => ENABLED InvokePipeline)

C7_Witness ==
    /\ doc = 1 /\ ~found
    /\ pc = "loop"
    /\ i = 2 /\ Len(files) = 3
    /\ usage_totals["input_tokens"] = 0

(* C8: the requests of a document are one per section in section order, then
   at most one by the relation linker, then one by the composer, none
   repeated; only the last request made can have failed; a completed
   extraction has asked once for every section, a completed linking has asked
   once exactly when there is knowledge, a completed composing has asked once. *)
C8_RequestOrder ==
    LET n == Len(Sections) IN
    /\ Len(calls) <= n + 2
    /\ \A k \in 1..Len(calls) :
          /\ (k <= n => calls[k].kind = "extract_knowledge" /\ calls[k].section = k)
          /\ (k = n + 1 => calls[k].kind \in {"link_relations", "compose_markdown"})
          /\ (k = n + 2 => calls[k].kind = "compose_markdown" /\ calls[k - 1].kind = "link_relations")
          /\ (k < Len(calls) => calls[k].outcome = "ok")
    /\ ("extract_knowledge" \in Range(completed) => Cardinality(CallsOf("extract_knowledge")) = n)
    /\ ("link_relations" \in Range(completed) =>
          Cardinality(CallsOf("link_relations")) = IF state["knowledge_items"] = <<>> THEN 0 ELSE 1)
    /\ ("compose_markdown" \in Range(completed) => Cardinality(CallsOf("compose_markdown")) = 1)
    /\ (exc # None /\ calls # <<>> /\ calls[Len(calls)].outcome # "ok" =>
          started[Len(started)] = calls[Len(calls)].kind)

C8_Witness ==
    /\ Len(Sections) = 2
    /\ Len(calls) = 4
    /\ "persist_markdown" \in Range(completed)

(* C9: with an empty knowledge list the relation linker makes no request and
   returns an empty relation list, and the compose stage is scheduled. *)
C9_EmptyKnowledgeNoRequest ==
    ("link_relations" \in Range(started) /\ state["knowledge_items"] = <<>>) =>
        /\ "link_relations" \in Range(completed)
        /\ state["relationships"] = <<>>
        /\ CallsOf("link_relations") = {}
        /\ (node = "compose_markdown" \/ "compose_markdown" \in Range(started))

C9_Witness ==
    /\ "compose_markdown" \in Range(completed)
    /\ Len(Sections) = 2
    /\ state["knowledge_items"] = <<>>
    /\ Len(calls) = 3

(* a parsed object without a non-empty source_id or target_id *)
LacksEndpoint(item) ==
    item # <<>> /\ (Get(item, "source_id") = <<>> \/ Get(item, "target_id") = <<>>)

LinkCalls == {calls[k] : k \in CallsOf("link_relations")}

(* C10, as claimed: an object lacking an endpoint identifier is dropped
   silently: the request does not fail and the stage returns. *)
C10_DroppedSilently ==
    \A call \in LinkCalls :
        (\E k \in 1..Len(call.data) : LacksEndpoint(call.data[k])) =>
            call.outcome = "ok" /\ "link_relations" \in Range(completed)

(* C10, amended: an object lacking an endpoint identifier makes link_relations
   raise ValueError: the stage does not return, no relation list is stored,
   the compose stage is never entered and the document's result is a failure
   with that error; a response of well-formed and empty objects only yields
   the edges of the well-formed ones, in order. *)
C10_MalformedEdgeAborts ==
    \A call \in LinkCalls :
        IF \E k \in 1..Len(call.data) : LacksEndpoint(call.data[k])
        THEN /\ call.outcome = "ValueError"
             /\ exc = Some(Exc("ValueError", <<"relation_edge_needs_source_and_target">>))
             /\ "link_relations" \notin Range(completed)
             /\ "relationships" \notin DOMAIN state
             /\ "compose_markdown" \notin Range(started)
             /\ (pc # "except" => ~results[doc].success /\ results[doc].error = Some(exc[1].msg))
        ELSE call.outcome = "ok" =>
             /\ "link_relations" \in Range(completed)
             /\ LET NonEmpty(item) == item # <<>>
                    kept == SelectSeq(call.data, NonEmpty)
                IN /\ Len(state["relationships"]) = Len(kept)
                   /\ \A k \in 1..Len(kept) :
                         /\ state["relationships"][k].source_id = kept[k]["source_id"]
                         /\ state["relationships"][k].target_id = kept[k]["target_id"]

C10_Witness ==
    /\ pc = "returned"
    /\ \E call \in LinkCalls : call.data = <<Edge_good, Edge_no_target>> /\ call.outcome = "ValueError"
    /\ ~results[1].success

(* the tracked elements of the parsed document, and where its segments start:
   before the first heading (0) and at every heading *)
Parsed == "parse_html" \in Range(completed)

Tracked ==
    LET IsTracked(element) == element.name \in TrackedNames IN SelectSeq(state["html"], IsTracked)

SegmentStarts == {0} \cup {p \in 1..Len(Tracked) : IsHeading(Tracked[p])}

SegmentEnd(p) ==
    LET later == {q \in SegmentStarts : q > p} IN
    IF later = {} THEN Len(Tracked) ELSE (CHOOSE q \in later : \A r \in later : q <= r) - 1

(* the segments with some non-empty content *)
ContentStarts ==
    {p \in SegmentStarts : \E q \in (p + 1)..SegmentEnd(p) : Strip(_element_text(Tracked[q])) # <<>>}

(* C11: the sections of every document have orders 1..k in list order and
   identifiers sec-1..sec-k, none has a body that is empty after trimming, and
   there is exactly one section per heading segment with non-empty content, in
   document order, carrying that segment's heading: a heading without content
   gives no section and uses no order index. *)
C11_DenseOrders ==
    Parsed =>
        LET sections == state["sections"]
            Rank(p) == Cardinality({q \in ContentStarts : q <= p})
        IN /\ \A k \in 1..Len(sections) :
                 /\ sections[k].order = k
                 /\ sections[k].identifier = <<"sec", k>>
                 /\ Strip(sections[k].body) # <<>>
           /\ (ContentStarts # {} =>
                 /\ Len(sections) = Cardinality(ContentStarts)
                 /\ \A p \in ContentStarts :
                       sections[Rank(p)].heading = IF p = 0 THEN None ELSE Some(Tracked[p].text))

C11_Witness ==
    /\ Parsed
    /\ Len(state["sections"]) = 2
    /\ Cardinality(SegmentStarts) = 3
    /\ 0 \in ContentStarts
    /\ \E p \in SegmentStarts \ ContentStarts : \E q \in ContentStarts : p < q

(* the document's plain text: the stripped, non-empty text nodes joined by a space *)
PlainText == Join(<<" ">>, AllStrings(state["html"]))

FallbackSection == SectionChunk(<<"sec", 1>>, Some(FullTextHeading), 1, PlainText, 1)

(* C12: when no heading segment has content, the section list is the single
   fallback section (sec-1, order 1, level 1, the full-text heading, the plain
   text as body) if the plain text is non-empty and empty otherwise; when some
   segment has content there is one section per such segment and none of them
   is the fallback. *)
C12_FallbackSection ==
    Parsed =>
        LET sections == state["sections"] IN
        IF ContentStarts = {}
        THEN sections = IF PlainText # <<>> THEN <<FallbackSection>> ELSE <<>>
        ELSE /\ Len(sections) = Cardinality(ContentStarts)
             /\ \A k \in 1..Len(sections) : sections[k].heading # Some(FullTextHeading)

C12_Witness ==
    /\ Parsed
    /\ state["sections"] = <<FallbackSection>>
    /\ \E p \in 1..Len(Tracked) : IsHeading(Tracked[p])
    /\ \E p \in 1..Len(state["html"]) : state["html"][p] = Div

(* the positions of the image elements of the document, and the k-th of them *)
ImagePositions == {p \in 1..Len(state["html"]) : state["html"][p].name = "img"}

NthImage(k) ==
    state["html"][CHOOSE p \in ImagePositions : Cardinality({q \in ImagePositions : q <= p}) = k]

(* C13: a document with N images gives exactly N assets, asset-1..asset-N in
   document order of the images, whatever its sections are; each asset carries
   its image's alternative text and source, the empty string when the image has
   no source attribute. *)
C13_AssetsNumbered ==
    Parsed =>
        LET assets == state["assets"] IN
        /\ Len(assets) = Cardinality(ImagePositions)
        /\ \A k \in 1..Len(assets) :
              /\ assets[k].identifier = <<"asset", k>>
              /\ assets[k].alt = NthImage(k).alt
              /\ assets[k].src = IF NthImage(k).src = None THEN <<>> ELSE NthImage(k).src[1]

C13_Witness ==
    /\ Parsed
    /\ Len(state["assets"]) = 2
    /\ state["assets"][1].src = <<>>
    /\ state["assets"][2].src = <<"pic.png">>
    /\ Len(state["sections"]) = 1
    /\ state["html"][1].name = "img"

(* text.split(sep) on token tuples *)
RECURSIVE Split(_, _)
Split(text, sep) ==
    IF \A k \in 1..Len(text) : text[k] # sep THEN <<text>>
    ELSE LET k == CHOOSE j \in 1..Len(text) : text[j] = sep /\ \A m \in 1..(j - 1) : text[m] # sep
         IN <<SubSeq(text, 1, k - 1)>> \o Split(SubSeq(text, k + 1, Len(text)), sep)

(* a document that is one table with at least one non-empty row, its rows, and
   the grid rendered for it: the lines of the section body, each as its cells
   without the single space on either side *)
TableRows == LET IsRow(cols) == cols # <<>> IN SelectSeq(state["html"][1].rows, IsRow)

TableParsed ==
    /\ Parsed
    /\ Len(state["html"]) = 1
    /\ state["html"][1].name = "table"
    /\ TableRows # <<>>

GridLines == Split(state["sections"][1].body, "\n")

GridCells(line) ==
    LET pieces == Split(line, "|") IN
    [c \in 1..(Len(pieces) - 2) |-> SubSeq(pieces[c + 1], 2, Len(pieces[c + 1]) - 1)]

(* the cell of row r in column c: empty when the row is shorter *)
CellAt(r, c) == IF c <= Len(TableRows[r]) THEN TableRows[r][c] ELSE <<>>

(* line 1 is the header, line 2 the separator, line r + 1 the data row r *)
GridRow(r) == GridCells(GridLines[IF r = 1 THEN 1 ELSE r + 1])

Spaces(n) == [k \in 1..n |-> " "]

(* C14, as claimed: a column is as wide as its widest cell over all rows, at
   least 3; every cell is padded to that width and the separator has one
   dash-filled cell of that width per header column. *)
C14_WidestCell ==
    TableParsed =>
        LET columns == 1..Len(TableRows[1])
            Widest(c) == CHOOSE w \in 0..100 :
                            /\ \A r \in 1..Len(TableRows) : Len(CellAt(r, c)) <= w
                            /\ \E r \in 1..Len(TableRows) : Len(CellAt(r, c)) = w
            Width(c) == Max(Widest(c), 3)
        IN /\ Len(GridLines) = Len(TableRows) + 1
           /\ \A c \in columns : GridCells(GridLines[2])[c] = Dashes(Width(c))
           /\ \A r \in 1..Len(TableRows) : \A c \in columns :
                 GridRow(r)[c] = CellAt(r, c) \o Spaces(Width(c) - Len(CellAt(r, c)))

(* C14, amended: a column is as wide as its header cell, at least 3; the
   separator has one dash-filled cell of that width per header column; a cell
   shorter than the width is padded to it with spaces, and a data cell longer
   than the width is rendered whole, at its own length; cells beyond the header
   columns are not rendered. *)
C14_HeaderWidth ==
    TableParsed =>
        LET columns == 1..Len(TableRows[1])
            Width(c) == Max(Len(TableRows[1][c]), 3)
        IN /\ Len(GridLines) = Len(TableRows) + 1
           /\ Len(GridCells(GridLines[2])) = Len(TableRows[1])
           /\ \A c \in columns : GridCells(GridLines[2])[c] = Dashes(Width(c))
           /\ \A r \in 1..Len(TableRows) :
                 /\ Len(GridRow(r)) = Len(TableRows[1])
                 /\ \A c \in columns :
                       GridRow(r)[c] = CellAt(r, c) \o Spaces(Max(Width(c) - Len(CellAt(r, c)), 0))

C14_Witness ==
    /\ TableParsed
    /\ Len(TableRows) = 2
    /\ Len(TableRows[1]) = 2
    /\ Len(TableRows[1][1]) = 1
    /\ Len(TableRows[2][1]) = 4
    /\ Len(GridRow(2)[1]) = 4
    /\ Len(GridRow(1)[1]) = 3

(* the units a parsed response array is to give for the section S: one per
   non-empty object, in order, identified by its own id or identifier when it
   has a truthy one and by S-ku-<position> otherwise, all referring back to S *)
UnitsFor(S, data) ==
    LET Kept(j) == data[j] # <<>>
        kept == SelectSeq([j \in 1..Len(data) |-> j], Kept)
        Identifier(j) == IF Get(data[j], "id") # <<>> THEN data[j]["id"]
                         ELSE IF Get(data[j], "identifier") # <<>> THEN data[j]["identifier"]
                         ELSE S \o <<"ku", j>>
    IN [k \in 1..Len(kept) |->
          [identifier |-> Identifier(kept[k]),
           title |-> Get(data[kept[k]], "title"),
           summary |-> Get(data[kept[k]], "summary"),
           source_section |-> Some(S)]]

(* the units of the sections answered so far, in section order *)
RECURSIVE UnitsUpTo(_)
UnitsUpTo(m) ==
    IF m = 0 THEN <<>>
    ELSE UnitsUpTo(m - 1) \o UnitsFor(state["sections"][m].identifier, args.answers[m].text.items)

AnsweredSections == {k \in 1..Len(calls) : calls[k].outcome = "ok"}

(* C15: the knowledge list is the concatenation, in section order, of the
   units of each answered section: one unit per non-empty object of the
   response array in response order, with identifier S-ku-i for the object at
   position i that has no truthy id or identifier, a non-empty identifier and
   source_section S in every unit whatever the object said, and no unit for an
   empty object. *)
C15_KnowledgeUnits ==
    ("extract_knowledge" \in Range(started) /\ "answers" \in DOMAIN args) =>
        /\ (sec >= 1 => knowledge = UnitsUpTo(Cardinality(AnsweredSections)))
        /\ \A k \in 1..Len(knowledge) :
              /\ knowledge[k].identifier # <<>>
              /\ \E m \in 1..Len(Sections) : knowledge[k].source_section = Some(Sections[m].identifier)
        /\ ("extract_knowledge" \in Range(completed) =>
              /\ Cardinality(AnsweredSections) = Len(Sections)
              /\ state["knowledge_items"] = UnitsUpTo(Len(Sections)))

C15_Witness ==
    /\ "extract_knowledge" \in Range(completed)
    /\ Len(Sections) = 2
    /\ args.answers[1].text.items = <<<<>>, Item_anonymous>>
    /\ args.answers[2].text.items = <<Item_named>>
    /\ Len(state["knowledge_items"]) = 2
    /\ state["knowledge_items"][1].identifier = <<"sec", 1, "ku", 2>>
    /\ state["knowledge_items"][2].source_section = Some(<<"sec", 2>>)

(* the validator has run; the issues it reported, read from the report it
   returned or from the error it raised *)
Validated == "validate_output" \in Range(started)

ReportedIssues ==
    IF "validate_output" \in Range(completed) THEN state["report"].issues
    ELSE LET IsIssue(token) == token # " / " IN SelectSeq(Tail(exc[1].msg), IsIssue)

SampledTitles ==
    {state["knowledge_items"][k].title : k \in 1..(IF Len(state["knowledge_items"]) < 10
                                                   THEN Len(state["knowledge_items"]) ELSE 10)} \ {<<>>}

(* the first ten units of the knowledge list, and those of them whose
   non-empty title the composed text lacks *)
SampledUnits ==
    {k \in 1..Len(state["knowledge_items"]) : k <= 10}

UncoveredUnits ==
    {k \in SampledUnits : /\ state["knowledge_items"][k].title # <<>>
                          /\ ~Contains(state["markdown"], state["knowledge_items"][k].title)}

Uncovered ==
    LET n == Cardinality(SampledUnits)
        threshold == IF (n \div 2) + 1 > 3 THEN (n \div 2) + 1 ELSE 3
    IN Cardinality(UncoveredUnits) >= threshold

(* C16: the validator reports the empty-output issue exactly for a text that
   is empty after trimming, the missing-title issue exactly for a non-empty
   text whose trimmed form does not start with #, and the coverage issue
   exactly when too many sampled titles are uncovered, each whatever the
   other checks found; the issues come in check order without
   repetition; the report is valid exactly when there is no issue; a text
   starting with # that contains every sampled title is valid. *)
C16_IssuesAccumulate ==
    Validated =>
        LET text == Strip(state["markdown"])
            issues == ReportedIssues
            Position(issue) == CHOOSE k \in 1..3 : <<IssueEmpty, IssueNoTitle, IssueCoverage>>[k] = issue
        IN /\ Range(issues) \subseteq {IssueEmpty, IssueNoTitle, IssueCoverage}
           /\ \A j, k \in 1..Len(issues) : j < k => Position(issues[j]) < Position(issues[k])
           /\ (IssueEmpty \in Range(issues) <=> text = <<>>)
           /\ (IssueNoTitle \in Range(issues) <=> text # <<>> /\ Head(text) # "#")
           /\ (IssueCoverage \in Range(issues) <=> Uncovered)
           /\ (issues = <<>> <=> "validate_output" \in Range(completed))
           /\ ("validate_output" \in Range(completed) =>
                 state["report"].valid /\ "report" \in DOMAIN state)
           /\ ("validate_output" \notin Range(completed) =>
                 exc # None /\ exc[1].type = "ValueError")
           /\ (text # <<>> /\ Head(text) = "#"
                  /\ (\A title \in SampledTitles : Contains(state["markdown"], title))
                 => issues = <<>>)

C16_Witness ==
    /\ Validated
    /\ ReportedIssues = <<IssueNoTitle, IssueCoverage>>
    /\ Len(state["knowledge_items"]) = 3

(* the first ten of the units that have a title *)
TitledUnits ==
    {k \in 1..Len(state["knowledge_items"]) : state["knowledge_items"][k].title # <<>>}

TitledSample ==
    {k \in TitledUnits : Cardinality({j \in TitledUnits : j < k}) < 10}

(* C17 as stated: the coverage issue is reported exactly when, of the first
   ten titled units, n in number, at least max(3, n div 2 + 1) have a title
   the composed text lacks. *)
C17_TitledSample ==
    Validated =>
        LET n == Cardinality(TitledSample)
            threshold == IF (n \div 2) + 1 > 3 THEN (n \div 2) + 1 ELSE 3
            missing == {k \in TitledSample :
                          ~Contains(state["markdown"], state["knowledge_items"][k].title)}
        IN IssueCoverage \in Range(ReportedIssues) <=> Cardinality(missing) >= threshold

(* C17: the coverage issue is reported exactly when, of the first ten units
   of the knowledge list, titled or not and n in number, at least
   max(3, n div 2 + 1) have a non-empty title the composed text lacks. *)
C17_CoverageThreshold ==
    Validated => (IssueCoverage \in Range(ReportedIssues) <=> Uncovered)

C17_Witness ==
    /\ Validated
    /\ Len(state["knowledge_items"]) = MaxUnits
    /\ Cardinality(UncoveredUnits) = 6
    /\ Cardinality(TitledUnits) = 7
    /\ IssueCoverage \in Range(ReportedIssues)

C17_UntitledCount ==
    /\ Validated
    /\ Len(state["knowledge_items"]) = 6
    /\ Cardinality(UncoveredUnits) = 3
    /\ Cardinality(TitledUnits) = 3
    /\ IssueCoverage \notin Range(ReportedIssues)

(* the result of the document the pipeline last ran on is recorded *)
UsageRecorded ==
    /\ pc \in {"loop", "returned"}
    /\ found
    /\ doc = Len(results)

(* the generation calls of the current document that got a response: each
   response of the whole-run specification reports Reported *)
AnsweredCalls == {k \in 1..Len(calls) : calls[k].outcome # "APIError"}

ReportedUsage(result) ==
    [input_tokens |-> result.usage_input_tokens, output_tokens |-> result.usage_output_tokens]

RECURSIVE SumOfDeltas(_, _)
SumOfDeltas(rs, field) ==
    IF rs = <<>> THEN 0
    ELSE (IF ReportedUsage(Head(rs))[field] = None THEN 0 ELSE ReportedUsage(Head(rs))[field][1])
         + SumOfDeltas(Tail(rs), field)

(* C18: the usage reported for a document that entered the pipeline, whether
   it succeeded or failed, is the totals after it minus the totals snapshot
   taken before it, is the sum of what its answered generation calls
   reported, and is not negative; whenever the loop is between documents or
   over, the reported usages add up to the client's totals. *)
C18_UsageDeltas ==
    /\ UsageRecorded =>
          \A field \in UsageFields :
             LET reported == ReportedUsage(results[doc])[field] IN
             /\ reported # None
             /\ reported[1] = usage_totals[field] - usage_before[field]
             /\ reported[1] = Cardinality(AnsweredCalls) * Reported[1][field][1]
             /\ reported[1] >= 0
    /\ pc \in {"loop", "returned"} =>
          \A field \in UsageFields : SumOfDeltas(results, field) = usage_totals[field]

C18_Witness ==
    /\ pc = "returned"
    /\ Len(results) = 3
    /\ results[1].success /\ results[1].usage_input_tokens = Some(3)
    /\ ~results[2].success /\ results[2].usage_input_tokens = None
    /\ ~results[3].success /\ results[3].usage_output_tokens = Some(2)
    /\ usage_totals["input_tokens"] = 4

(* the path with its extension replaced by .json *)
JsonSibling(path) == [path EXCEPT !.suffix = ".json"]

(* the files on storage: the last write to each path *)
Stored(log, path) ==
    LET at == {k \in 1..Len(log) : log[k].path = path} IN
    IF at = {} THEN None ELSE Some(log[CHOOSE k \in at : \A j \in at : j <= k])

(* C19: only the persist stage writes, whether or not the files exist
   already: either the text alone, and then the stage fails, or the text and
   after it the companion record at the text's path with the extension
   replaced by .json, and then the stage returns these two paths, which depend
   on the output path only, and both files hold what was just written; so no
   companion record is written unless the text was written just before it. *)
C19_PrimaryThenCompanion ==
    [][writes' # writes =>
         LET output_path == state["metadata"].output_path
             added == SubSeq(writes', Len(writes) + 1, Len(writes'))
         IN /\ node = "persist_markdown"
            /\ IsPrefix(writes, writes')
            /\ added[1].kind = "markdown"
            /\ added[1].path = output_path
            /\ \/ /\ Len(added) = 1
                  /\ pc' = "except"
                  /\ "persist_markdown" \notin Range(completed')
               \/ /\ Len(added) = 2
                  /\ added[2].kind = "json"
                  /\ added[2].path = JsonSibling(output_path)
                  /\ "persist_markdown" \in Range(completed')
                  /\ state'["output_path"] = output_path
                  /\ state'["graph_path"] = JsonSibling(output_path)
                  /\ Stored(writes', output_path) = Some(added[1])
                  /\ Stored(writes', JsonSibling(output_path)) = Some(added[2])]_vars

(* persisted, then persisted again up to the text only *)
C19_Witness ==
    /\ Len(writes) = 3
    /\ writes[3].path = writes[1].path
    /\ writes[3].kind = "markdown"
    /\ writes[2].kind = "json"
    /\ pc = "except"
    /\ exc # None /\ exc[1].type = "OSError"

(* persisted twice over *)
C19_Rewritten ==
    /\ Len(writes) = 4
    /\ writes[3].path = writes[1].path
    /\ writes[4].path = writes[2].path
    /\ "persist_markdown" \in Range(completed)
    /\ state["output_path"] = writes[1].path
    /\ state["graph_path"] = writes[2].path

(* the run of the pipeline on the current document is over and recorded *)
Recorded ==
    /\ pc \in {"loop", "returned"}
    /\ results # <<>>
    /\ doc = Len(results)

(* C20: a successful result has an output path, a companion path and a
   validation report and no error; a failed one has an error and none of the
   three; the result of a document is successful exactly when the persist
   stage completed for it. *)
C20_ResultShape ==
    /\ \A k \in 1..Len(results) :
          LET result == results[k] IN
          IF result.success
          THEN /\ result.output_path # None
               /\ result.graph_path # None
               /\ result.report # None
               /\ result.error = None
          ELSE /\ result.error # None
               /\ result.output_path = None
               /\ result.graph_path = None
               /\ result.report = None
    /\ Recorded => (results[doc].success <=> "persist_markdown" \in Range(completed))

C20_Witness ==
    /\ Recorded
    /\ results[doc].success
    /\ results[doc].output_path = Some(writes[1].path)
    /\ results[doc].graph_path = Some(writes[2].path)
    /\ results[doc].report = Some(ValidationReport(TRUE, <<>>))

(* the text was written and the document failed all the same *)
C20_FailedAfterWrite ==
    /\ Recorded
    /\ ~results[doc].success
    /\ writes # <<>>
    /\ "persist_markdown" \in Range(started)

(* main() has run on args.argv *)
Dispatched == pc # "main" /\ "argv" \in DOMAIN args

(* the argument is one of the legacy run options: --config, -c, --output-dir,
   --inputs, one of the long names followed by =, or -c followed by a value *)
IsLegacyOption(arg) ==
    \/ arg \in {<<"-", "-", "config">>, <<"-", "c">>, <<"-", "-", "output-dir">>, <<"-", "-", "inputs">>}
    \/ /\ Len(arg) >= 4
       /\ SubSeq(arg, 1, 4) \in {<<"-", "-", "config", "=">>, <<"-", "-", "output-dir", "=">>,
                                 <<"-", "-", "inputs", "=">>}
    \/ /\ Len(arg) >= 3
       /\ SubSeq(arg, 1, 2) = <<"-", "c">>

IsLegacyInvocation(argv) ==
    /\ argv # <<>>
    /\ argv[1] # <<"run">>
    /\ \E k \in 1..Len(argv) : IsLegacyOption(argv[k])

(* C21: main() prepends run to a non-empty argument list whose first argument
   is not a command and which holds a legacy run option, and passes every
   other list on unchanged; the legacy invocation then ends as the same list
   after run does; --config X alone calls the runner once with X and neither
   output override nor input list; injecting again changes nothing. *)
C21_LegacyInvocation ==
    Dispatched =>
        /\ args.normalized = IF IsLegacyInvocation(args.argv) THEN <<(<<"run">>)>> \o args.argv
                              ELSE args.argv
        /\ IsLegacyInvocation(args.argv) =>
              /\ Dispatch(<<(<<"run">>)>> \o args.argv).ok = (args.called # <<>>)
              /\ args.called # <<>> => args.called = <<Dispatch(<<(<<"run">>)>> \o args.argv).value>>
              /\ args.called = <<>> => raised = Some(Dispatch(<<(<<"run">>)>> \o args.argv).exc)
        /\ args.argv = <<(<<"-", "-", "config">>), (<<"X">>)>> =>
              args.called = <<[config |-> <<"X">>, output_override |-> None, input_list |-> None]>>
        /\ _inject_legacy_command(args.normalized) = args.normalized
        /\ Len(args.called) <= 1

C21_Witness ==
    /\ pc = "loop"
    /\ "argv" \in DOMAIN args
    /\ args.argv = <<(<<"-", "-", "config">>), (<<"X">>)>>
    /\ args.normalized = <<(<<"run">>), (<<"-", "-", "config">>), (<<"X">>)>>
    /\ Len(files) = 1

(* a request was sent; the messages it was asked to send and those it sent *)
Sent == calls # <<>> /\ calls[1].kind = "request"

ContentOf(message) == IF "content" \in DOMAIN message THEN message["content"] ELSE <<>>

IsTextBlock(item) == item.py = "dict" /\ "type" \in DOMAIN item.dict /\ item.dict["type"] = "text"

(* C22: the messages a request carries are the given ones in number and
   order, each with its content items in number and order; a plain string has
   become an input_text block with the string as text, a block of type text
   the same block with type input_text, every other item is as given; and
   normalizing what was sent gives what was sent. *)
C22_NormalizedMessages ==
    Sent =>
        LET given == args.messages
            sent == calls[1].input
        IN /\ Len(sent) = Len(given)
           /\ \A k \in 1..Len(given) :
                 /\ \A key \in DOMAIN given[k] \ {"content"} :
                       key \in DOMAIN sent[k] /\ sent[k][key] = given[k][key]
                 /\ DOMAIN sent[k] = DOMAIN given[k] \cup {"content"}
                 /\ Len(sent[k]["content"]) = Len(ContentOf(given[k]))
                 /\ \A j \in 1..Len(ContentOf(given[k])) :
                       LET item == ContentOf(given[k])[j]
                           out == sent[k]["content"][j]
                       IN IF item.py = "str"
                          THEN /\ out.py = "dict"
                               /\ out.dict = [type |-> "input_text", text |-> item.str]
                          ELSE IF IsTextBlock(item)
                          THEN /\ out.py = "dict"
                               /\ DOMAIN out.dict = DOMAIN item.dict
                               /\ out.dict["type"] = "input_text"
                               /\ \A key \in DOMAIN item.dict \ {"type"} :
                                     out.dict[key] = item.dict[key]
                          ELSE out = item
           /\ _normalize_messages(sent) = sent

C22_Witness ==
    /\ Sent
    /\ args.messages = <<[role |-> "system", content |-> <<PyStr(<<"hello">>)>>],
                         [role |-> "user", content |-> <<PyDict([type |-> "text", text |-> <<"world">>])>>]>>
    /\ calls[1].input[1]["content"][1].dict["type"] = "input_text"
    /\ calls[1].input[1]["content"][1].dict["text"] = <<"hello">>
    /\ calls[1].input[2]["content"][1].dict["type"] = "input_text"
    /\ calls[1].input[2]["content"][1].dict["text"] = <<"world">>

(* the companion records written so far *)
CompanionRecords == {k \in 1..Len(writes) : writes[k].kind = "json"}

(* C23: every companion record written has a validation block with valid
   true and no issues, and every successful result carries a report with valid
   true and no issues. *)
C23_OnlyValidRecorded ==
    /\ \A k \in CompanionRecords :
          /\ writes[k].validation # None
          /\ writes[k].validation[1].valid = TRUE
          /\ writes[k].validation[1].issues = <<>>
    /\ \A k \in 1..Len(results) :
          results[k].success =>
             /\ results[k].report # None
             /\ results[k].report[1].valid = TRUE
             /\ results[k].report[1].issues = <<>>

(* a document recorded and reported, whose knowledge has titles the
   validator looked for *)
C23_Witness ==
    /\ pc = "returned"
    /\ CompanionRecords # {}
    /\ Len(results) = 1
    /\ results[1].success
    /\ Len(state["knowledge_items"]) >= 1
    /\ state["knowledge_items"][1].title # <<>>

(* C24: the files written during a run are written to pairwise distinct
   paths: a document's companion record is not at the path of its text, nor
   any file of one document at the path of a file of another. *)
C24_DistinctWrittenPaths ==
    \A j, k \in 1..Len(writes) : j # k => writes[j].path # writes[k].path

(* the batch passed the uniqueness check and two documents wrote their
   companion records to one path *)
C24_SharedCompanion ==
    /\ pc = "returned"
    /\ Len(results) = 2
    /\ results[1].success /\ results[2].success
    /\ results[1].output_path # results[2].output_path
    /\ results[1].graph_path = results[2].graph_path

(* a document whose companion record replaced its text *)
C24_SelfOverwrite ==
    /\ pc = "returned"
    /\ Len(results) = 1
    /\ results[1].success
    /\ results[1].graph_path = results[1].output_path

(* the fields each stage produces *)
StageFields ==
    [load_html |-> {"html"},
     parse_html |-> {"sections", "assets"},
     summarize_structure |-> {"outline"},
     extract_knowledge |-> {"knowledge_items"},
     link_relations |-> {"relationships"},
     compose_markdown |-> {"markdown"},
     validate_output |-> {"report"},
     persist_markdown |-> {"output_path", "graph_path"}]

(* C25: the document state changes only when a document enters the pipeline
   and when a stage returns; a stage that returns adds fields of its own and
   leaves every field the state had, metadata included, as it was; a document
   entering the pipeline starts from a state that holds its own metadata and
   nothing else. *)
C25_StagesOnlyAdd ==
    [][state' # state =>
         /\ pc' = "invoke"
         /\ pc \in {"loop", "invoke"}
         /\ pc = "invoke" =>
               /\ \A key \in DOMAIN state : key \in DOMAIN state' /\ state'[key] = state[key]
               /\ DOMAIN state' # DOMAIN state
               /\ (DOMAIN state' \ DOMAIN state) \subseteq StageFields[node]
         /\ pc = "loop" =>
               /\ DOMAIN state' = {"metadata"}
               /\ state'["metadata"].input_path = files[i].input
               /\ state'["metadata"].output_path = _resolve_output_path(files[i], output_dir)]_vars

(* the second document of a batch went through every stage *)
C25_Witness ==
    /\ pc = "returned"
    /\ doc = 2
    /\ Len(results) = 2
    /\ results[1].success /\ results[2].success
    /\ DOMAIN state = {"metadata", "html", "sections", "assets", "outline", "knowledge_items",
                       "relationships", "markdown", "report", "output_path", "graph_path"}
    /\ state["metadata"] = results[2].metadata
    /\ state["metadata"] # results[1].metadata

====
